---------------------------- MODULE Spec2Model ----------------------------
(***************************************************************************)
(* A model of finix::LineProtocol (flp.h): the input buffer, the command   *)
(* registry, Feed, Process, ValidateApply and RegisterCommand.             *)
(*                                                                         *)
(* A std::string is a sequence of one-character strings.  Positions are    *)
(* 0-based as in the source; NPOS stands for std::string::npos.  A float   *)
(* is an integer number of 1/Scale units, so 5.0 is 5 * Scale; the values  *)
(* the modelled peer sends have at most FracDigits fractional digits and   *)
(* are far below 2^24, where float holds them exactly.                     *)
(***************************************************************************)
EXTENDS Integers, Sequences, FiniteSets, TLC

\* ------------------------------------------------------------------------
\* Bounds of the model
\* ------------------------------------------------------------------------

\* number of lines the peer sends in one behaviour of Spec
MaxLines == 2
\* largest number of bytes handed to one Feed call
MaxChunk == 2
\* fractional digits a modelled float keeps
FracDigits == 1
\* largest number of argument tokens on a line of LineSpec
MaxArgs == 2
\* largest number of ExchangeState objects alive at once in StateSpec
MaxObjs == 2

\* ------------------------------------------------------------------------
\* std::string primitives
\* ------------------------------------------------------------------------

NPOS == -1

SP == " "

\* LineProtocol(buf_reserve, delim = '\n', ostream)
delim == "\n"

NUL == "NUL"

Min(a, b) == IF a < b THEN a ELSE b

\* s.find(c, from)
Find(s, c, from) ==
    IF from = NPOS \/ \A i \in from..(Len(s) - 1) : s[i + 1] # c
    THEN NPOS
    ELSE CHOOSE i \in from..(Len(s) - 1) :
            /\ s[i + 1] = c
            /\ \A j \in from..(i - 1) : s[j + 1] # c

\* s.find_first_not_of(c, from)
FindFirstNotOf(s, c, from) ==
    IF from = NPOS \/ \A i \in from..(Len(s) - 1) : s[i + 1] = c
    THEN NPOS
    ELSE CHOOSE i \in from..(Len(s) - 1) :
            /\ s[i + 1] # c
            /\ \A j \in from..(i - 1) : s[j + 1] = c

\* s.substr(pos, n)
Substr(s, pos, n) == SubSeq(s, pos + 1, Min(pos + n, Len(s)))

\* s.substr(pos)
SubstrFrom(s, pos) == SubSeq(s, pos + 1, Len(s))

\* s.c_str() as the C library reads it: the bytes before the first NUL
CStr(s) ==
    LET z == Find(s, NUL, 0)
    IN  IF z = NPOS THEN s ELSE Substr(s, 0, z)

\* ------------------------------------------------------------------------
\* Tokenizer (the head of ValidateApply)
\* ------------------------------------------------------------------------

RECURSIVE TokenLoop(_, _, _)
TokenLoop(cmd_line, last, tokens) ==
    LET next == Find(cmd_line, SP, last)
    IN  IF next # NPOS
        THEN TokenLoop(cmd_line,
                       FindFirstNotOf(cmd_line, SP, next),
                       Append(tokens, Substr(cmd_line, last, next - last)))
        ELSE IF last # NPOS /\ SubstrFrom(cmd_line, last) # <<>>
             THEN Append(tokens, SubstrFrom(cmd_line, last))
             ELSE tokens

Tokenize(cmd_line) ==
    TokenLoop(cmd_line, FindFirstNotOf(cmd_line, SP, 0), <<>>)

\* ------------------------------------------------------------------------
\* Value coercion: strtol(value, &p, 10) and strtof(value, &p)
\* ------------------------------------------------------------------------

Digits == <<"0", "1", "2", "3", "4", "5", "6", "7", "8", "9">>

IsDigit(c) == \E i \in 1..10 : Digits[i] = c

DigitVal(c) == (CHOOSE i \in 1..10 : Digits[i] = c) - 1

RECURSIVE Pow10(_)
Pow10(n) == IF n = 0 THEN 1 ELSE 10 * Pow10(n - 1)

Scale == Pow10(FracDigits)

\* the first position >= from of c that holds no digit
DigitsEnd(c, from) ==
    CHOOSE e \in from..Len(c) :
        /\ \A i \in from..(e - 1) : IsDigit(c[i + 1])
        /\ e = Len(c) \/ ~IsDigit(c[e + 1])

\* the decimal number written in c[from .. to-1]
RECURSIVE DecVal(_, _, _)
DecVal(c, from, to) ==
    IF to <= from THEN 0
    ELSE 10 * DecVal(c, from, to - 1) + DigitVal(c[to])

SignLen(c) == IF Len(c) > 0 /\ c[1] \in {"+", "-"} THEN 1 ELSE 0

SignOf(c) == IF Len(c) > 0 /\ c[1] = "-" THEN -1 ELSE 1

\* what a conversion leaves: the value, the offset of *p in the C string, and
\* the length of the C string (*p == 0 iff end = len)
Converted(val, end, len) == [val |-> val, end |-> end, len |-> len]

\* strtol on the C string c whose digits start at i0 and stop at e
StrtolAt(c, i0, e) ==
    IF e = i0
    THEN Converted(0, 0, Len(c))
    ELSE Converted(SignOf(c) * DecVal(c, i0, e), e, Len(c))

StrtolC(c) == StrtolAt(c, SignLen(c), DigitsEnd(c, SignLen(c)))

\* strtol(arg_value.c_str(), &p, 10)
Strtol(arg_value) == StrtolC(CStr(arg_value))

\* the fraction digits c[from .. to-1] as a number of 1/Scale units
FracVal(c, from, to) ==
    DecVal(c, from, from + Min(to - from, FracDigits))
        * Pow10(FracDigits - Min(to - from, FracDigits))

\* where the fraction of a decimal number ends whose integer digits end at ie
FracEnd(c, ie) ==
    IF ie < Len(c) /\ c[ie + 1] = "." THEN DigitsEnd(c, ie + 1) ELSE ie

\* strtof on the C string c: integer digits c[i0 .. ie-1], and up to fe the
\* point and the fraction digits
StrtofAt(c, i0, ie, fe) ==
    IF (ie - i0) + (IF fe > ie THEN fe - (ie + 1) ELSE 0) = 0
    THEN Converted(0, 0, Len(c))
    ELSE Converted(SignOf(c) * (DecVal(c, i0, ie) * Scale
                                + (IF fe > ie THEN FracVal(c, ie + 1, fe) ELSE 0)),
                   fe, Len(c))

StrtofFrom(c, i0, ie) == StrtofAt(c, i0, ie, FracEnd(c, ie))

StrtofC(c) == StrtofFrom(c, SignLen(c), DigitsEnd(c, SignLen(c)))

\* strtof(arg_value.c_str(), &p), on decimal notation
Strtof(arg_value) == StrtofC(CStr(arg_value))

\* ------------------------------------------------------------------------
\* Records: ArgumentSpec, CommandSpec, RawArgumentMap
\* ------------------------------------------------------------------------

\* std::unordered_map as a function; an empty one
EmptyMap == [k \in {} |-> 0]

\* an assignment that leaves a key already present as it is
MapPut_KeepFirst(m, k, v) ==
    [x \in (DOMAIN m) \cup {k} |-> IF x = k /\ k \notin DOMAIN m THEN v ELSE m[x]]

\* m[k] = v
MapPut(m, k, v) == [x \in (DOMAIN m) \cup {k} |-> IF x = k THEN v ELSE m[x]]

\* ArgumentSpec(int&, optional, validator): setter assigns (int)v to the variable
IntArg(target, optional, validator) ==
    [optional |-> optional, is_float |-> FALSE,
     setter |-> [kind |-> "int", target |-> target], validator |-> validator]

\* ArgumentSpec(float&, optional, validator): setter assigns v to the variable
FloatArg(target, optional, validator) ==
    [optional |-> optional, is_float |-> TRUE,
     setter |-> [kind |-> "float", target |-> target], validator |-> validator]

CommandSpec(arg_map, callback) == [arg_map |-> arg_map, callback |-> callback]

\* (int)v for a float v: truncation toward zero
IntCast(v) == IF v >= 0 THEN v \div Scale ELSE -((-v) \div Scale)

\* validator(v); "null" is an unset std::function, "gt50" the predicate of
\* TEST_CASE("Validation"), "default_<T>" is get_default_validator<T>()
Validate(validator, v) ==
    CASE validator = "gt50" -> v > 50 * Scale
      [] validator = "default_bool" -> v = 0 \/ v = Scale
      [] validator = "default_uint8_t" -> v >= 0 /\ v <= 255 * Scale
      [] OTHER -> TRUE

\* std::is_floating_point_v<T>
IsFloatingPoint(T) == T = "float"

\* get_default_validator<T>()
DefaultValidator(T) ==
    CASE T = "bool" -> "default_bool"
      [] T = "uint8_t" -> "default_uint8_t"
      [] OTHER -> "default_float"

\* ArgumentSpec(ExchangeState<T>&, optional, validator): the setter is the
\* state's setter_, the validator defaults to get_default_validator<T>();
\* id is the identity of the state object, T its type
StateArg(id, T, optional, validator) ==
    [optional |-> optional, is_float |-> IsFloatingPoint(T),
     setter |-> [kind |-> "state", target |-> id],
     validator |-> IF validator # "null" THEN validator ELSE DefaultValidator(T)]

\* ------------------------------------------------------------------------
\* ValidateApply: the checks (up to "All check has passed")
\* ------------------------------------------------------------------------

\* what a throw site reports: the exception class and the error kind
Throw(exc, kind) == [ok |-> FALSE, exc |-> exc, kind |-> kind, asked |-> <<>>]

\* one accepted token: its name, its value and whether the name is declared
Accepted(declared, name, val) ==
    [ok |-> TRUE, declared |-> declared, name |-> name, val |-> val, asked |-> <<>>]

\* history: r came about with the call arg_spec.validator(val) for name
Asked(r, name, val) == [r EXCEPT !.asked = <<[name |-> name, val |-> val]>>]

\* the type and validator checks made of undeclared arguments too
CheckParsed_Strict(arg_map, arg_name, l, f) ==
    IF ~(l.end = l.len \/ f.end = f.len)
    THEN Throw("InvalidArgumentError", "MalformedArgument")
    ELSE IF l.end # l.len
            /\ (arg_name \notin DOMAIN arg_map \/ ~arg_map[arg_name].is_float)
    THEN Throw("InvalidArgumentError", "TypeMismatch")
    ELSE IF arg_name \in DOMAIN arg_map
            /\ arg_map[arg_name].validator # "null"
            /\ ~Validate(arg_map[arg_name].validator,
                         IF f.end = f.len THEN f.val ELSE l.val * Scale)
    THEN Throw("ValidatorError", "ValidationFailed")
    ELSE Accepted(arg_name \in DOMAIN arg_map, arg_name,
                  IF f.end = f.len THEN f.val ELSE l.val * Scale)

\* the type check made on the number, not on how it is written
CheckParsed_ByValue(arg_map, arg_name, l, f) ==
    IF ~(l.end = l.len \/ f.end = f.len)
    THEN Throw("InvalidArgumentError", "MalformedArgument")
    ELSE IF arg_name \notin DOMAIN arg_map
    THEN Accepted(FALSE, arg_name, IF f.end = f.len THEN f.val ELSE l.val * Scale)
    ELSE IF ~arg_map[arg_name].is_float /\ f.val % Scale # 0
    THEN Throw("InvalidArgumentError", "TypeMismatch")
    ELSE IF arg_map[arg_name].validator # "null"
            /\ ~Validate(arg_map[arg_name].validator,
                         IF f.end = f.len THEN f.val ELSE l.val * Scale)
    THEN Throw("ValidatorError", "ValidationFailed")
    ELSE Accepted(TRUE, arg_name, IF f.end = f.len THEN f.val ELSE l.val * Scale)

\* the validator run before the type check
CheckParsed_ValidatorFirst(arg_map, arg_name, l, f) ==
    IF ~(l.end = l.len \/ f.end = f.len)
    THEN Throw("InvalidArgumentError", "MalformedArgument")
    ELSE IF arg_name \notin DOMAIN arg_map
    THEN Accepted(FALSE, arg_name, IF f.end = f.len THEN f.val ELSE l.val * Scale)
    ELSE IF arg_map[arg_name].validator # "null"
            /\ ~Validate(arg_map[arg_name].validator,
                         IF f.end = f.len THEN f.val ELSE l.val * Scale)
    THEN Asked(Throw("ValidatorError", "ValidationFailed"), arg_name,
               IF f.end = f.len THEN f.val ELSE l.val * Scale)
    ELSE IF ~arg_map[arg_name].is_float /\ l.end # l.len
    THEN Throw("InvalidArgumentError", "TypeMismatch")
    ELSE Accepted(TRUE, arg_name, IF f.end = f.len THEN f.val ELSE l.val * Scale)

\* the checks of a token after both conversions: l is strtol's, f is strtof's
CheckParsed(arg_map, arg_name, l, f) ==
    LET val_is_int   == l.end = l.len
        val_is_float == f.end = f.len
        float_val    == IF f.end = f.len THEN f.val ELSE l.val * Scale
    IN  IF ~(val_is_int \/ val_is_float)
        THEN Throw("InvalidArgumentError", "MalformedArgument")
        ELSE IF arg_name \notin DOMAIN arg_map
        THEN Accepted(FALSE, arg_name, float_val)
        ELSE IF ~arg_map[arg_name].is_float /\ ~val_is_int
        THEN Throw("InvalidArgumentError", "TypeMismatch")
        ELSE IF arg_map[arg_name].validator = "null"
        THEN Accepted(TRUE, arg_name, float_val)
        ELSE IF ~Validate(arg_map[arg_name].validator, float_val)
        THEN Asked(Throw("ValidatorError", "ValidationFailed"), arg_name, float_val)
        ELSE Asked(Accepted(TRUE, arg_name, float_val), arg_name, float_val)

\* the checks of a token split at its first '='
CheckPair(arg_map, arg_name, arg_value) ==
    IF arg_value = <<>>
    THEN Throw("InvalidArgumentError", "MalformedArgument")
    ELSE CheckParsed(arg_map, arg_name, Strtol(arg_value), Strtof(arg_value))

\* the checks of one argument token
CheckToken(arg_map, token) ==
    IF Find(token, "=", 0) = NPOS
    THEN Throw("InvalidArgumentError", "MalformedArgument")
    ELSE CheckPair(arg_map,
                   Substr(token, 0, Find(token, "=", 0)),
                   SubstrFrom(token, Find(token, "=", 0) + 1))

\* the loop over tokens[1..]: stops at the first token that throws; the
\* result carries predefined_arg_map and undefined_arg_map as they then stand
\* asked is history: the validator calls made so far, in order
RECURSIVE ArgLoop(_, _, _, _, _, _)
ArgStep(arg_map, tokens, i, predefined, undefined, asked, r) ==
    IF ~r.ok
    THEN [ok |-> FALSE, exc |-> r.exc, kind |-> r.kind,
          predefined |-> predefined, undefined |-> undefined,
          asked |-> asked \o r.asked]
    ELSE IF r.declared
    THEN ArgLoop(arg_map, tokens, i + 1, MapPut(predefined, r.name, r.val), undefined,
                 asked \o r.asked)
    ELSE ArgLoop(arg_map, tokens, i + 1, predefined, MapPut(undefined, r.name, r.val),
                 asked \o r.asked)

ArgLoop(arg_map, tokens, i, predefined, undefined, asked) ==
    IF i > Len(tokens)
    THEN [ok |-> TRUE, exc |-> "none", kind |-> "none",
          predefined |-> predefined, undefined |-> undefined, asked |-> asked]
    ELSE ArgStep(arg_map, tokens, i, predefined, undefined, asked,
                 CheckToken(arg_map, tokens[i]))

\* "check if all required arguments are supplied"
MissingRequired(arg_map, predefined) ==
    {n \in DOMAIN arg_map : ~arg_map[n].optional /\ n \notin DOMAIN predefined}

\* the locals of ValidateApply where it returns or throws
Locals(ok, exc, kind, command, predefined, undefined, asked) ==
    [ok |-> ok, exc |-> exc, kind |-> kind, command |-> command,
     predefined |-> predefined, undefined |-> undefined, asked |-> asked]

\* no check of the required arguments
CheckRequired_Skip(command, r) ==
    Locals(r.ok, r.exc, r.kind, command, r.predefined, r.undefined, r.asked)

\* the end of the checks: r is what the loop over the tokens left
CheckRequired(command, r) ==
    IF r.ok /\ MissingRequired(command.arg_map, r.predefined) # {}
    THEN Locals(FALSE, "InvalidArgumentError", "MissingRequiredArgument",
                command, r.predefined, r.undefined, r.asked)
    ELSE Locals(r.ok, r.exc, r.kind, command, r.predefined, r.undefined, r.asked)

\* a lookup that takes a registered qualifier the first token starts with
CheckTokens_Prefix(command_map, tokens) ==
    IF \A q \in DOMAIN command_map : Substr(tokens[1], 0, Len(q)) # q
    THEN Locals(FALSE, "UnknownQualifierError", "UnknownQualifier",
                CommandSpec(EmptyMap, "null"), EmptyMap, EmptyMap, <<>>)
    ELSE CheckRequired(
             command_map[CHOOSE q \in DOMAIN command_map : Substr(tokens[1], 0, Len(q)) = q],
             ArgLoop(command_map[CHOOSE q \in DOMAIN command_map :
                                     Substr(tokens[1], 0, Len(q)) = q].arg_map,
                     tokens, 2, EmptyMap, EmptyMap, <<>>))

\* the checks of the tokens of a line against the registry
CheckTokens(command_map, tokens) ==
    IF tokens[1] \notin DOMAIN command_map
    THEN Locals(FALSE, "UnknownQualifierError", "UnknownQualifier",
                CommandSpec(EmptyMap, "null"), EmptyMap, EmptyMap, <<>>)
    ELSE CheckRequired(command_map[tokens[1]],
                       ArgLoop(command_map[tokens[1]].arg_map, tokens, 2,
                               EmptyMap, EmptyMap, <<>>))

\* The outcome of the checks of ValidateApply(cmd_line) against a registry:
\* an error, or the command with its matched and unmatched maps.
Validated(command_map, cmd_line) == CheckTokens(command_map, Tokenize(cmd_line))

\* ------------------------------------------------------------------------
\* State
\* ------------------------------------------------------------------------

VARIABLES
    buf_,           \* LineProtocol::buf_
    command_map_,   \* LineProtocol::command_map_
    store,          \* the user's variables the setters are bound to
    last,           \* the last call: its name, what it returned or threw, what it invoked
    fed,            \* history: every byte handed to Feed, in order
    log,            \* history: the outcome of every Process call that handled a line
    wire,           \* the peer: bytes of its current line not yet handed to Feed
    sent,           \* the peer: number of lines it has written
    quiet,          \* history: no RegisterCommand succeeded since the first Feed
    first,          \* history: what each qualifier was first registered with
    dups,           \* history: the qualifiers a RegisterCommand call found taken
    handled,        \* history: the lines handed to ValidateApply, in order
    exchange_state_map_,    \* LineProtocol::exchange_state_map_
    objs,           \* the ExchangeState objects alive, by identity
    ostream_,       \* what has been written to the sink ostream_ refers to
    exceptions      \* the build: whether __EXCEPTIONS is defined

vars == <<buf_, command_map_, store, last, fed, log, wire, sent, quiet, first, dups,
          handled, exchange_state_map_, objs, ostream_, exceptions>>

\* the state registry, the state objects, the sink and the build
stateVars == <<exchange_state_map_, objs, ostream_, exceptions>>

\* the variables bound by reference in the registered ArgumentSpecs
Targets == {"i", "f", "g"}

\* ------------------------------------------------------------------------
\* What the user registers and what the peer sends
\* ------------------------------------------------------------------------

\* {"a": int optional, "r": float required, "v": float optional, v > 50.0}
ArgsA ==
    [n \in {<<"a">>, <<"r">>, <<"v">>} |->
        CASE n = <<"a">> -> IntArg("i", TRUE, "null")
          [] n = <<"r">> -> FloatArg("f", FALSE, "null")
          [] OTHER       -> FloatArg("g", TRUE, "gt50")]

\* {"a": float optional}
ArgsB == [n \in {<<"a">>} |-> FloatArg("f", TRUE, "null")]

\* {"r": float required, "v": float optional}, both bound to the same float
ArgsC ==
    [n \in {<<"r">>, <<"v">>} |->
        IF n = <<"r">> THEN FloatArg("f", FALSE, "null") ELSE FloatArg("f", TRUE, "null")]

\* the RegisterCommand calls the user makes; a nullptr callback is "null"
Registrations ==
    { [q |-> <<"t">>, arg_map |-> ArgsA, callback |-> "cbA"],
      [q |-> <<"t">>, arg_map |-> ArgsB, callback |-> "null"],
      [q |-> <<"t">>, arg_map |-> ArgsC, callback |-> "cbA"] }

\* what the peer of Spec writes before each delimiter: a line, or a blank
\* line and a line in one burst
StreamLines ==
    { <<>>,
      <<" ">>,
      <<" ", delim, "t", " ", "r", "=", "2">>,
      <<"t">>,
      <<"u">>,
      <<"t", " ", "a", "=", ".", "5">>,
      <<"t", " ", "v", "=", "5">>,
      <<" ", "t", " ", " ", "a", "=", "5", " ", "r", "=", "z", " ">> }

\* ------------------------------------------------------------------------
\* Init
\* ------------------------------------------------------------------------

NoCall == [op |-> "none"]

Init ==
    /\ buf_ = <<>>
    /\ command_map_ = EmptyMap
    /\ store = [t \in Targets |-> 0]
    /\ last = NoCall
    /\ fed = <<>>
    /\ log = <<>>
    /\ wire = <<>>
    /\ sent = 0
    /\ quiet = TRUE
    /\ first = EmptyMap
    /\ dups = {}
    /\ handled = <<>>
    /\ exchange_state_map_ = EmptyMap
    /\ objs = EmptyMap
    /\ ostream_ = <<>>
    /\ exceptions = TRUE

\* ------------------------------------------------------------------------
\* Feed
\* ------------------------------------------------------------------------

\* a Feed that assigns where it should append
Appended_Assign(buf, bytes) == bytes

\* a Feed that puts the new bytes in front
Appended_Front(buf, bytes) == bytes \o buf

\* buf_.append(buffer, len) / buf_.append(str)
Appended(buf, bytes) == buf \o bytes

Feed(bytes) ==
    /\ buf_' = Appended(buf_, bytes)
    /\ fed' = fed \o bytes
    /\ last' = [op |-> "Feed", before |-> buf_, bytes |-> bytes]
    /\ UNCHANGED <<command_map_, store, log, quiet, first, dups, handled>>
    /\ UNCHANGED stateVars

\* the peer starts a line; the transport will hand it over in pieces
PeerWrite ==
    /\ wire = <<>>
    /\ sent < MaxLines
    /\ \E l \in StreamLines : wire' = Append(l, delim)
    /\ sent' = sent + 1
    /\ UNCHANGED <<buf_, command_map_, store, last, fed, log, quiet, first, dups, handled>>
    /\ UNCHANGED stateVars

\* the transport hands the next n bytes to Feed
FeedChunk ==
    \E n \in 1..Min(MaxChunk, Len(wire)) :
        /\ Feed(SubSeq(wire, 1, n))
        /\ wire' = SubSeq(wire, n + 1, Len(wire))
        /\ UNCHANGED sent

\* ------------------------------------------------------------------------
\* RegisterCommand
\* ------------------------------------------------------------------------

\* a registration that overwrites
Registered_Overwrite(command_map, full_qualifier, arg_map, callback) ==
    MapPut(command_map, full_qualifier, CommandSpec(arg_map, callback))

\* command_map_ after RegisterCommand(full_qualifier, arg_map, callback)
Registered(command_map, full_qualifier, arg_map, callback) ==
    IF full_qualifier \notin DOMAIN command_map
    THEN MapPut(command_map, full_qualifier, CommandSpec(arg_map, callback))
    ELSE command_map

\* RegisterCommand(r.q, r.arg_map, r.callback)
RegisterCall(r) ==
    LET dup == r.q \in DOMAIN command_map_
    IN  /\ command_map_' = Registered(command_map_, r.q, r.arg_map, r.callback)
        /\ last' = [op |-> "RegisterCommand", q |-> r.q,
                    arg_map |-> r.arg_map, callback |-> r.callback,
                    before |-> command_map_,
                    result |-> IF dup THEN "InvalidArgumentError" ELSE "true"]
        /\ quiet' = (quiet /\ (dup \/ fed = <<>>))
        /\ first' = IF r.q \in DOMAIN first THEN first
                     ELSE MapPut(first, r.q, CommandSpec(r.arg_map, r.callback))
        /\ dups' = IF r.q \in DOMAIN first THEN dups \cup {r.q} ELSE dups
        /\ UNCHANGED <<buf_, store, fed, log, wire, sent, handled>>
        /\ UNCHANGED stateVars

RegisterCommand == \E r \in Registrations : RegisterCall(r)

\* ------------------------------------------------------------------------
\* Process and ValidateApply
\* ------------------------------------------------------------------------

\* cmd_str.empty() || cmd_str.find_first_not_of(' ') == npos
IsBlank(cmd_str) == cmd_str = <<>> \/ FindFirstNotOf(cmd_str, SP, 0) = NPOS

\* an erase that empties the buffer
Erased_Clear(buf, n) == <<>>

\* an erase of one byte too many
Erased_OneMore(buf, n) == SubSeq(buf, n + 2, Len(buf))

\* buf_.erase(0, n)
Erased(buf, n) == SubSeq(buf, n + 1, Len(buf))

\* a Process that returns false after discarding one blank line
ExtractLine_NoLoop(buf) ==
    IF Find(buf, delim, 0) = NPOS
    THEN [has |-> FALSE, cmd_str |-> <<>>, buf |-> buf]
    ELSE IF IsBlank(Substr(buf, 0, Find(buf, delim, 0)))
    THEN [has |-> FALSE, cmd_str |-> <<>>,
          buf |-> SubSeq(buf, Find(buf, delim, 0) + 2, Len(buf))]
    ELSE [has |-> TRUE, cmd_str |-> Substr(buf, 0, Find(buf, delim, 0)),
          buf |-> SubSeq(buf, Find(buf, delim, 0) + 2, Len(buf))]

\* the while (true) loop of Process up to the call of ValidateApply:
\* has = FALSE when it returns false for want of a delimiter
RECURSIVE ExtractLine(_)
ExtractLine(buf) ==
    LET found == Find(buf, delim, 0)
    IN  IF found = NPOS
        THEN [has |-> FALSE, cmd_str |-> <<>>, buf |-> buf]
        ELSE LET cmd_str == Substr(buf, 0, found)
                 rest    == Erased(buf, found + 1)
             IN  IF IsBlank(cmd_str)
                 THEN ExtractLine(rest)
                 ELSE [has |-> TRUE, cmd_str |-> cmd_str, buf |-> rest]

\* what ValidateApply reports to the caller of Process, from its checks v
OutcomeOf(v) ==
    IF v.ok
    THEN [result |-> "ok", exc |-> "none", kind |-> "none",
          callback |-> v.command.callback,
          matched |-> v.predefined, unmatched |-> v.undefined, asked |-> v.asked]
    ELSE [result |-> "error", exc |-> v.exc, kind |-> v.kind,
          callback |-> "null", matched |-> EmptyMap, unmatched |-> EmptyMap,
          asked |-> v.asked]

Outcome(command_map, cmd_str) == OutcomeOf(Validated(command_map, cmd_str))

\* the orders in which a range-for may visit the keys of an unordered_map
Orders(S) ==
    {o \in [1..Cardinality(S) -> S] : \A i, j \in DOMAIN o : o[i] = o[j] => i = j}

\* arg_map.at(name).setter(v)
SetterCall(arg_map, name, v) ==
    [name |-> name, kind |-> arg_map[name].setter.kind,
     target |-> arg_map[name].setter.target,
     val |-> IF arg_map[name].setter.kind = "int" THEN IntCast(v) ELSE v]

\* "now apply the arguments": the setter calls, in the order visited
SetterCalls(arg_map, predefined, order) ==
    [i \in DOMAIN order |-> SetterCall(arg_map, order[i], predefined[order[i]])]

\* the user's variables after the setter calls
RECURSIVE Stored(_, _)
Stored(st, calls) ==
    IF calls = <<>> THEN st
    ELSE IF Head(calls).kind = "state" THEN Stored(st, Tail(calls))
    ELSE Stored([st EXCEPT ![Head(calls).target] = Head(calls).val], Tail(calls))

\* (T)v for a float v
Cast(T, v) ==
    CASE T = "bool" -> IF v # 0 THEN 1 ELSE 0
      [] T = "uint8_t" -> IntCast(v) % 256
      [] OTHER -> v

\* Respond(channel, message, label): the line written to the sink, without
\* its timestamp
Respond(channel, message, label) ==
    [label |-> label, channel |-> channel, message |-> message]

\* ExchangeState<T>::ReportState(): what it writes for the object o
ReportState(o) == <<Respond(o.name_, o.state_, "R")>>

\* a Set that never reports
Set_Silent(o, other) == [obj |-> [o EXCEPT !.state_ = other], out |-> <<>>]

\* ExchangeState<T>::Set(other): the object afterwards and what was written
Set(o, other) ==
    [obj |-> [o EXCEPT !.state_ = other],
     out |-> IF o.report_state THEN ReportState([o EXCEPT !.state_ = other]) ELSE <<>>]

\* the state objects and the sink after the setter calls; a state's setter_
\* is [&](float v) { Set((T)v); }
RECURSIVE SetAll(_, _, _)
SetAll(os, out, calls) ==
    IF calls = <<>> THEN [objs |-> os, ostream |-> out]
    ELSE IF Head(calls).kind # "state" THEN SetAll(os, out, Tail(calls))
    ELSE SetAll([os EXCEPT ![Head(calls).target] =
                     Set(os[Head(calls).target],
                         Cast(os[Head(calls).target].T, Head(calls).val)).obj],
                out \o Set(os[Head(calls).target],
                           Cast(os[Head(calls).target].T, Head(calls).val)).out,
                Tail(calls))

\* setters run for every argument that passed, whatever comes after it
ToApply_Eager(v) == v.predefined

\* the arguments the apply loop visits: predefined_arg_map once "All check
\* has passed", nothing when a check threw
ToApply(v) == IF v.ok THEN v.predefined ELSE EmptyMap

\* the setter calls ValidateApply makes after its checks v, for one visiting order
SettersOf(v, order) == SetterCalls(v.command.arg_map, ToApply(v), order)

\* the callback calls ValidateApply makes: none if it threw or the callback is
\* a nullptr
CallbacksOf(o) ==
    IF o.result = "ok" /\ o.callback # "null"
    THEN << [callback |-> o.callback, matched |-> o.matched,
             unmatched |-> o.unmatched] >>
    ELSE <<>>

\* the record of one Process call
Processed(before, cmd_str, o, calls, st, seen) ==
    [op |-> "Process", before |-> before, result |-> o.result,
     cmd_str |-> cmd_str, exc |-> o.exc, kind |-> o.kind,
     matched |-> o.matched, unmatched |-> o.unmatched, asked |-> o.asked,
     setters |-> calls, callbacks |-> CallbacksOf(o), store_before |-> st,
     store_seen |-> seen,
     objs_before |-> objs, ostream_before |-> ostream_]

NoOutcome ==
    [result |-> "none", exc |-> "none", kind |-> "none",
     callback |-> "null", matched |-> EmptyMap, unmatched |-> EmptyMap,
     asked |-> <<>>]

\* ------------------------------------------------------------------------
\* The callbacks of RegisterInternalCommands
\* ------------------------------------------------------------------------

\* FLP_VERSION
FLP_VERSION == <<"1", ".", "1", ".", "1">>

\* the qualifiers RegisterInternalCommands registers, in its order
QVersion == <<"@", "f", "l", "p", ".", "v", "e", "r", "s", "i", "o", "n">>
QBufferSize ==
    <<"@", "f", "l", "p", ".", "b", "u", "f", "f", "e", "r", ".", "s", "i", "z", "e">>
QCmdReg == <<"@", "f", "l", "p", ".", "c", "m", "d", "_", "r", "e", "g">>
QState == <<"@", "f", "l", "p", ".", "s", "t", "a", "t", "e">>

InternalQualifiers == <<QVersion, QBufferSize, QCmdReg, QState>>

\* the lambdas registered for the internal qualifiers, in the same order
InternalCallbacks == <<"@flp.version", "@flp.buffer.size", "@flp.cmd_reg", "@flp.state">>

IsInternal(callback) == \E i \in 1..4 : callback = InternalCallbacks[i]

\* one decimal digit
Digit(d) ==
    CASE d = 0 -> "0" [] d = 1 -> "1" [] d = 2 -> "2" [] d = 3 -> "3" [] d = 4 -> "4"
      [] d = 5 -> "5" [] d = 6 -> "6" [] d = 7 -> "7" [] d = 8 -> "8" [] OTHER -> "9"

\* std::to_string of a number that is not negative
RECURSIVE UnsignedToString(_)
UnsignedToString(n) ==
    IF n < 10 THEN <<Digit(n)>> ELSE Append(UnsignedToString(n \div 10), Digit(n % 10))

\* std::to_string(int)
IntToString(n) == IF n < 0 THEN <<"-">> \o UnsignedToString(-n) ELSE UnsignedToString(n)

\* std::to_string(float) of a whole number: "%f", six fractional digits
FloatToString(n) == IntToString(n) \o <<".", "0", "0", "0", "0", "0", "0">>

\* the text the @flp.cmd_reg callback builds for the arguments of one
\* command, visited in the order oa
RECURSIVE ArgsReg(_, _, _)
ArgsReg(arg_map, oa, i) ==
    IF i > Len(oa) THEN <<>>
    ELSE <<"\"">> \o oa[i] \o <<"\":\"">>
         \o <<IF arg_map[oa[i]].optional THEN "optional," ELSE "required,">>
         \o <<IF arg_map[oa[i]].is_float THEN "float" ELSE "int">>
         \o <<"\"">>
         \o (IF i < Len(oa) THEN <<",">> ELSE <<>>)
         \o ArgsReg(arg_map, oa, i + 1)

\* the text it builds for the commands visited in the order oc, the
\* arguments of the command q in the order oas[q]
RECURSIVE CmdReg(_, _, _, _)
CmdReg(command_map, oc, oas, i) ==
    IF i > Len(oc) THEN <<>>
    ELSE <<"\"">> \o oc[i] \o <<"\": {">>
         \o ArgsReg(command_map[oc[i]].arg_map, oas[oc[i]], 1)
         \o <<IF i = Len(oc) THEN "}" ELSE "},">>
         \o CmdReg(command_map, oc, oas, i + 1)

\* an order for the arguments of every command
ArgOrders(command_map) ==
    {oas \in [DOMAIN command_map ->
                 UNION {Orders(DOMAIN command_map[q].arg_map) : q \in DOMAIN command_map}] :
        \A q \in DOMAIN command_map : oas[q] \in Orders(DOMAIN command_map[q].arg_map)}

\* the texts the @flp.cmd_reg callback may build: the iteration order of an
\* unordered_map is not specified
CmdRegTexts(command_map) ==
    {<<"{">> \o CmdReg(command_map, oc, oas, 1) \o <<"}">> :
        oc \in Orders(DOMAIN command_map), oas \in ArgOrders(command_map)}

\* the text the @flp.state callback builds for the states visited in the
\* order os; getter_ returns (float)Get()
RECURSIVE StateReg(_, _, _, _)
StateReg(state_map, os, ord, i) ==
    IF i > Len(ord) THEN <<>>
    ELSE <<"\"", ord[i], "\":">>
         \o (IF state_map[ord[i]].is_float
             THEN FloatToString(os[state_map[ord[i]].owner].state_)
             ELSE IntToString(os[state_map[ord[i]].owner].state_))
         \o (IF i < Len(ord) THEN <<",">> ELSE <<>>)
         \o StateReg(state_map, os, ord, i + 1)

StateTexts(state_map, os) ==
    {<<"{">> \o StateReg(state_map, os, ord, 1) \o <<"}">> :
        ord \in Orders(DOMAIN state_map)}

\* what the callback of a handled line may write to the sink: buf is buf_
\* when the callback runs, os the state objects after the setters
CallbackWrites(o, buf, command_map, state_map, os) ==
    IF o.result # "ok" \/ ~IsInternal(o.callback) THEN {<<>>}
    ELSE CASE o.callback = "@flp.version" ->
                {<<Respond(QVersion, FLP_VERSION, "_")>>}
           [] o.callback = "@flp.buffer.size" ->
                {<<Respond(QBufferSize, IntToString(Len(buf)), "_")>>}
           [] o.callback = "@flp.cmd_reg" ->
                {<<Respond(QCmdReg, t, "_")>> : t \in CmdRegTexts(command_map)}
           [] OTHER ->
                {<<Respond(QState, t, "_")>> : t \in StateTexts(state_map, os)}

\* the callback called before the setters
Apply_CallbackFirst(cmd_str, o, calls) ==
    /\ store' = Stored(store, calls)
    /\ objs' = SetAll(objs, ostream_, calls).objs
    /\ \E out \in CallbackWrites(o, buf_', command_map_, exchange_state_map_, objs) :
          ostream_' = SetAll(objs, ostream_ \o out, calls).ostream
    /\ log' = Append(log, o)
    /\ handled' = Append(handled, cmd_str)
    /\ last' = Processed(buf_, cmd_str, o, calls, store, store)

\* a callback that finds the buffer as it was before Process erased the line
Apply_BeforeErase(cmd_str, o, calls) ==
    /\ store' = Stored(store, calls)
    /\ objs' = SetAll(objs, ostream_, calls).objs
    /\ \E out \in CallbackWrites(o, buf_, command_map_, exchange_state_map_,
                                  SetAll(objs, ostream_, calls).objs) :
          ostream_' = SetAll(objs, ostream_, calls).ostream \o out
    /\ log' = Append(log, o)
    /\ handled' = Append(handled, cmd_str)
    /\ last' = Processed(buf_, cmd_str, o, calls, store, Stored(store, calls))

\* ValidateApply after its checks: the setters, then the callback; Process
\* has erased the line from buf_ before
Apply(cmd_str, o, calls) ==
    /\ store' = Stored(store, calls)
    /\ objs' = SetAll(objs, ostream_, calls).objs
    /\ \E out \in CallbackWrites(o, buf_', command_map_, exchange_state_map_,
                                  SetAll(objs, ostream_, calls).objs) :
          ostream_' = SetAll(objs, ostream_, calls).ostream \o out
    /\ log' = Append(log, o)
    /\ handled' = Append(handled, cmd_str)
    /\ last' = Processed(buf_, cmd_str, o, calls, store, Stored(store, calls))

Checked(cmd_str, v) ==
    \E order \in Orders(DOMAIN ToApply(v)) :
        Apply(cmd_str, OutcomeOf(v), SettersOf(v, order))

ValidateApply(cmd_str) == Checked(cmd_str, Validated(command_map_, cmd_str))

\* a Process that erases the line only once ValidateApply has returned true
Process_EraseOnSuccess ==
    /\ buf_' = IF ExtractLine(buf_).has
                    /\ ~Validated(command_map_, ExtractLine(buf_).cmd_str).ok
                 THEN buf_
                 ELSE ExtractLine(buf_).buf
    /\ UNCHANGED <<command_map_, fed, wire, sent, quiet, first, dups>>
    /\ UNCHANGED <<exchange_state_map_, exceptions>>
    /\ IF ~ExtractLine(buf_).has
       THEN /\ last' = Processed(buf_, <<>>, NoOutcome, <<>>, store, store)
            /\ UNCHANGED <<store, log, handled, objs, ostream_>>
       ELSE ValidateApply(ExtractLine(buf_).cmd_str)

Process ==
    /\ buf_' = ExtractLine(buf_).buf
    /\ UNCHANGED <<command_map_, fed, wire, sent, quiet, first, dups>>
    /\ UNCHANGED <<exchange_state_map_, exceptions>>
    /\ IF ~ExtractLine(buf_).has
       THEN /\ last' = Processed(buf_, <<>>, NoOutcome, <<>>, store, store)
            /\ UNCHANGED <<store, log, handled, objs, ostream_>>
       ELSE ValidateApply(ExtractLine(buf_).cmd_str)

\* ------------------------------------------------------------------------
\* Specification: a peer streaming lines in chunks
\* ------------------------------------------------------------------------

Next ==
    \/ PeerWrite
    \/ FeedChunk
    \/ Process
    \/ RegisterCommand

Spec == Init /\ [][Next]_vars

\* what a Process call does to a buffer that holds a delimiter
Polled == Find(buf_, delim, 0) # NPOS /\ buf_' = ExtractLine(buf_).buf

\* the caller polls: while the buffer holds a delimiter, a Process call is
\* eventually made
FairSpec == Spec /\ WF_buf_(Polled)

\* ------------------------------------------------------------------------
\* Specification: one line at a time, over every line of up to MaxArgs
\* argument tokens
\* ------------------------------------------------------------------------

\* the argument tokens the peer of LineSpec writes
ArgTokens ==
    { <<"a", "=", "5">>,
      <<"a", "=", "2", ".", "5">>,
      <<"a", "=", "7", ".", "0">>,
      <<"r", "=", "2">>,
      <<"r", "=", ".", "5">>,
      <<"v", "=", "5", "1">>,
      <<"v", "=", "5">>,
      <<"x", "=", "-", "7">>,
      <<"x", "=", "1", ".", "5">>,
      <<"x", "=", "z">>,
      <<"a">>,
      <<"a", "=">> }

\* qualifier_str followed by the tokens, one space before each
RECURSIVE Joined(_, _)
Joined(head, tokens) ==
    IF tokens = <<>> THEN head
    ELSE Joined(head \o <<SP>> \o Head(tokens), Tail(tokens))

ArgLists == UNION {[1..n -> ArgTokens] : n \in 0..MaxArgs}

\* lines with a second '=' or a NUL byte in a value, and a line whose
\* qualifier starts with a registered one; Feed(buffer, len) takes any bytes
OddLines ==
    { <<"t", " ", "a", "=", "5", "=", "3">>,
      <<"t", " ", "x", "=", "=", "5">>,
      <<"t", " ", "a", "=", "5", NUL, "z">>,
      <<"t", " ", "a", "=", "5", NUL, "=", "3">>,
      <<"t", "t", " ", "r", "=", "2">> }

RichLines ==
    {Joined(<<"t">>, args) : args \in ArgLists}
        \cup {<<"u">>, <<"u", " ", "x", "=", "-", "7">>}
        \cup OddLines

\* the user's variables hold whatever earlier commands left in them
LineInit ==
    /\ buf_ = <<>>
    /\ command_map_ = EmptyMap
    /\ store \in {[t \in Targets |-> 0], [t \in Targets |-> 9]}
    /\ last = NoCall
    /\ fed = <<>>
    /\ log = <<>>
    /\ wire = <<>>
    /\ sent = 0
    /\ quiet = TRUE
    /\ first = EmptyMap
    /\ dups = {}
    /\ handled = <<>>
    /\ exchange_state_map_ = EmptyMap
    /\ objs = EmptyMap
    /\ ostream_ = <<>>
    /\ exceptions = TRUE

\* Feed(str) with one whole line and its delimiter
FeedLine ==
    /\ fed = <<>>
    /\ \E l \in RichLines : Feed(Append(l, delim))
    /\ UNCHANGED <<wire, sent>>

LineNext ==
    \/ FeedLine
    \/ Process
    \/ RegisterCommand

LineSpec == LineInit /\ [][LineNext]_vars

\* ------------------------------------------------------------------------
\* Exchange states: ExchangeState<T> objects and the state registry
\* ------------------------------------------------------------------------

\* the ExchangeState<T>(flp, name) objects the user declares
StateDecls == {[name |-> "b", T |-> "bool"], [name |-> "n", T |-> "uint8_t"]}

\* identities of the objects alive at once
ObjIds == 1..MaxObjs

\* "T state_;" is not initialized by the constructor: it holds any value of T
Indeterminate == {0, 1}

\* ExchangeStateInterface(es.Getter(), es.Setter(), is_floating_point_v<T>):
\* getter and setter are closures over the object, named here by its identity
ExchangeStateInterface(id, T) == [owner |-> id, is_float |-> IsFloatingPoint(T)]

\* exchange_state_map_ after RegisterExchangeState(es)
RegisteredState(m, name, id, T) ==
    IF name \notin DOMAIN m
    THEN MapPut(m, name, ExchangeStateInterface(id, T))
    ELSE m

\* an erase that empties the registry when the name is absent
Unregistered_Clear(m, name) ==
    IF name \in DOMAIN m THEN [n \in (DOMAIN m) \ {name} |-> m[n]] ELSE EmptyMap

\* exchange_state_map_ after UnregisterExchangeState(name)
Unregistered(m, name) == [n \in (DOMAIN m) \ {name} |-> m[n]]

\* the object's setter_ was copied into the ArgumentSpec of a registered command
Bound(id) ==
    \E q \in DOMAIN command_map_ : \E n \in DOMAIN command_map_[q].arg_map :
        /\ command_map_[q].arg_map[n].setter.kind = "state"
        /\ command_map_[q].arg_map[n].setter.target = id

\* ExchangeState<T>::ExchangeState(flp, name), the new object getting the
\* identity id: it calls flp.RegisterExchangeState(*this); on a taken name
\* that call throws when the build has exceptions, and no object comes to be;
\* without exceptions it returns false, which the constructor ignores
Constructed(name, T, init, id) ==
    /\ exchange_state_map_' = RegisteredState(exchange_state_map_, name, id, T)
    /\ objs' = IF name \in DOMAIN exchange_state_map_ /\ exceptions
                THEN objs
                ELSE MapPut(objs, id,
                            [name_ |-> name, T |-> T, state_ |-> init,
                             report_state |-> TRUE,
                             registered |-> name \notin DOMAIN exchange_state_map_])
    /\ last' = [op |-> "ExchangeState", name |-> name, id |-> id,
                before |-> exchange_state_map_,
                result |-> IF name \notin DOMAIN exchange_state_map_ THEN "true"
                           ELSE IF exceptions THEN "InvalidArgumentError"
                           ELSE "false"]
    /\ UNCHANGED <<buf_, command_map_, store, fed, log, wire, sent, quiet, first, dups,
                   handled, ostream_, exceptions>>

Construct ==
    /\ DOMAIN objs # ObjIds
    /\ \E d \in StateDecls : \E init \in Indeterminate :
          Constructed(d.name, d.T, init,
                      CHOOSE id \in ObjIds \ DOMAIN objs :
                          \A j \in ObjIds \ DOMAIN objs : id <= j)

\* ExchangeState<T>::~ExchangeState(): flp_.UnregisterExchangeState(name_).
\* The user keeps alive the objects whose setters registered commands hold.
Destroy ==
    \E id \in DOMAIN objs :
        /\ ~Bound(id)
        /\ exchange_state_map_' = Unregistered(exchange_state_map_, objs[id].name_)
        /\ objs' = [i \in (DOMAIN objs) \ {id} |-> objs[i]]
        /\ last' = [op |-> "~ExchangeState", name |-> objs[id].name_, id |-> id,
                    before |-> exchange_state_map_, result |-> "void"]
        /\ UNCHANGED <<buf_, command_map_, store, fed, log, wire, sent, quiet, first,
                       dups, handled, ostream_, exceptions>>

\* a direct call of UnregisterExchangeState(name); the object that owned the
\* entry is from then on no registered owner
UnregisterExchangeState ==
    \E d \in StateDecls :
        /\ exchange_state_map_' = Unregistered(exchange_state_map_, d.name)
        /\ objs' = [i \in DOMAIN objs |->
                        IF objs[i].name_ = d.name
                        THEN [objs[i] EXCEPT !.registered = FALSE]
                        ELSE objs[i]]
        /\ last' = [op |-> "UnregisterExchangeState", name |-> d.name,
                    before |-> exchange_state_map_, result |-> "void"]
        /\ UNCHANGED <<buf_, command_map_, store, fed, log, wire, sent, quiet, first,
                       dups, handled, ostream_, exceptions>>

\* es.report_state = b, an assignment to the public member of a state object
SetReportState ==
    \E id \in DOMAIN objs, b \in BOOLEAN :
        /\ objs[id].report_state # b
        /\ objs' = [objs EXCEPT ![id].report_state = b]
        /\ last' = [op |-> "report_state", id |-> id, result |-> "void"]
        /\ UNCHANGED <<buf_, command_map_, store, fed, log, wire, sent, quiet, first,
                       dups, handled, exchange_state_map_, ostream_, exceptions>>

\* {"a": ArgumentSpec(state), "k": ArgumentSpec(int)} for the state object id
StateArgs(id) ==
    [n \in {<<"a">>, <<"k">>} |->
        IF n = <<"a">> THEN StateArg(id, objs[id].T, TRUE, "null")
        ELSE IntArg("i", TRUE, "null")]

\* RegisterCommand("t", {{"a", ArgumentSpec(state)}, ...}, nullptr)
RegisterStateCommand ==
    \E id \in DOMAIN objs :
        RegisterCall([q |-> <<"t">>, arg_map |-> StateArgs(id), callback |-> "null"])

\* the lines the peer of StateSpec writes
StateLines ==
    { <<"t", " ", "a", "=", "1">>,
      <<"t", " ", "a", "=", "0">>,
      <<"t", " ", "a", "=", "2">>,
      <<"t", " ", "a", "=", "1", ".", "0">>,
      <<"t", " ", "a", "=", "2", ".", "5">>,
      <<"t", " ", "a", "=", "3", "0", "0">>,
      <<"t", " ", "a", "=", "0", " ", "a", "=", "1">>,
      <<"t", " ", "a", "=", "1", " ", "k", "=", "1", ".", "5">>,
      <<"t", " ", "a", "=", "1", " ", "k", "=", "3">>,
      <<"t", " ", "k", "=", "3">> }

FeedStateLine ==
    /\ fed = <<>>
    /\ \E l \in StateLines : Feed(Append(l, delim))
    /\ UNCHANGED <<wire, sent>>

\* either build of the header
StateInit ==
    /\ buf_ = <<>>
    /\ command_map_ = EmptyMap
    /\ store = [t \in Targets |-> 0]
    /\ last = NoCall
    /\ fed = <<>>
    /\ log = <<>>
    /\ wire = <<>>
    /\ sent = 0
    /\ quiet = TRUE
    /\ first = EmptyMap
    /\ dups = {}
    /\ handled = <<>>
    /\ exchange_state_map_ = EmptyMap
    /\ objs = EmptyMap
    /\ ostream_ = <<>>
    /\ exceptions \in BOOLEAN

\* ------------------------------------------------------------------------
\* RegisterInternalCommands
\* ------------------------------------------------------------------------

\* command_map_ after the RegisterCommand calls of RegisterInternalCommands
\* from the i-th on: where exceptions are enabled the first call that finds
\* its qualifier taken throws and the calls behind it are not made; else it
\* returns false, which is ignored
RECURSIVE InternalRegistered(_, _, _)
InternalRegistered(command_map, i, exc) ==
    IF i > Len(InternalQualifiers) THEN command_map
    ELSE IF InternalQualifiers[i] \in DOMAIN command_map /\ exc THEN command_map
    ELSE InternalRegistered(Registered(command_map, InternalQualifiers[i], EmptyMap,
                                       InternalCallbacks[i]),
                            i + 1, exc)

\* the calls of RegisterInternalCommands that are made
InternalCalls(command_map, exc) ==
    {i \in 1..Len(InternalQualifiers) :
        ~exc \/ \A j \in 1..(i - 1) : InternalQualifiers[j] \notin DOMAIN command_map}

RegisterInternalCommands ==
    /\ command_map_' = InternalRegistered(command_map_, 1, exceptions)
    /\ last' = [op |-> "RegisterInternalCommands", before |-> command_map_,
                result |-> IF exceptions /\ \E i \in 1..Len(InternalQualifiers) :
                                              InternalQualifiers[i] \in DOMAIN command_map_
                           THEN "InvalidArgumentError" ELSE "void"]
    /\ quiet' = (quiet /\ (fed = <<>> \/ command_map_' = command_map_))
    /\ first' = [q \in (DOMAIN first)
                        \cup {InternalQualifiers[i] : i \in InternalCalls(command_map_, exceptions)} |->
                    IF q \in DOMAIN first THEN first[q]
                    ELSE CommandSpec(EmptyMap,
                                     InternalCallbacks[CHOOSE i \in 1..Len(InternalQualifiers) :
                                                           InternalQualifiers[i] = q])]
    /\ dups' = dups \cup {InternalQualifiers[i] : i \in
                              {j \in InternalCalls(command_map_, exceptions) :
                                   InternalQualifiers[j] \in DOMAIN first}}
    /\ UNCHANGED <<buf_, store, fed, log, wire, sent, handled>>
    /\ UNCHANGED <<exchange_state_map_, objs, ostream_, exceptions>>

\* the user's callback for a qualifier that RegisterInternalCommands uses
UserCallback == "cbU"

\* {"a": int optional, "r": float optional}
UserArgs ==
    [n \in {<<"a">>, <<"r">>} |->
        IF n = <<"a">> THEN IntArg("i", TRUE, "null") ELSE FloatArg("f", TRUE, "null")]

\* RegisterCommand("@flp...", {{"a", ...}, {"r", ...}}, cb): the user
\* registers a qualifier that RegisterInternalCommands uses
RegisterBuiltin ==
    \E i \in 1..Len(InternalQualifiers) :
        RegisterCall([q |-> InternalQualifiers[i], arg_map |-> UserArgs,
                      callback |-> UserCallback])

\* what the peer of InternalSpec writes in one burst
QueryBursts ==
    { QVersion \o <<delim>>,
      QBufferSize \o <<delim>>,
      <<" ", delim, delim>> \o QBufferSize \o <<delim>>,
      QBufferSize \o <<delim>> \o QVersion \o <<delim>>,
      QBufferSize \o <<delim, "t", " ", "r">>,
      QBufferSize \o <<delim, " ", delim>>,
      QBufferSize \o <<" ", "x", "=", "5", delim, delim>>,
      <<"t", " ", "r", "=", "2", delim>> \o QBufferSize \o <<delim, "t", delim>>,
      QCmdReg \o <<delim>>,
      QState \o <<delim>> }

FeedQuery ==
    /\ fed = <<>>
    /\ \E l \in QueryBursts : Feed(l)
    /\ UNCHANGED <<wire, sent>>

\* Specification: the internal commands, user registrations of their
\* qualifiers, and queries
InternalNext ==
    \/ RegisterInternalCommands
    \/ RegisterBuiltin
    \/ FeedQuery
    \/ Process

InternalSpec == StateInit /\ [][InternalNext]_vars

\* Specification: state objects coming and going
RegistryNext ==
    \/ Construct
    \/ Destroy
    \/ UnregisterExchangeState

RegistrySpec == StateInit /\ [][RegistryNext]_vars

\* Specification: a command with an argument bound to a state object, and
\* one line for it
StateNext ==
    \/ Construct
    \/ RegisterStateCommand
    \/ SetReportState
    \/ FeedStateLine
    \/ Process

StateSpec == StateInit /\ [][StateNext]_vars

\* ------------------------------------------------------------------------
\* Vocabulary of the properties, defined on the bytes alone
\* ------------------------------------------------------------------------

HasDelim(s) == \E i \in 1..Len(s) : s[i] = delim

FirstDelim(s) == CHOOSE i \in 1..Len(s) : s[i] = delim /\ \A j \in 1..(i - 1) : s[j] # delim

\* the complete lines of s, without their delimiters
RECURSIVE CompleteLines(_)
CompleteLines(s) ==
    IF ~HasDelim(s) THEN <<>>
    ELSE <<SubSeq(s, 1, FirstDelim(s) - 1)>>
            \o CompleteLines(SubSeq(s, FirstDelim(s) + 1, Len(s)))

AllSpaces(l) == \A i \in 1..Len(l) : l[i] = SP

NotAllSpaces(l) == ~AllSpaces(l)

\* the complete non-blank lines of s
Pending(s) == SelectSeq(CompleteLines(s), NotAllSpaces)

\* s with its first n bytes removed
Suffix(s, n) == SubSeq(s, n + 1, Len(s))

\* after is what before keeps once line, the blank lines before it and its
\* delimiter are taken from its front
TookLine(before, line, after) ==
    \E n \in 1..Len(before) :
        /\ before[n] = delim
        /\ after = Suffix(before, n)
        /\ Pending(SubSeq(before, 1, n)) = <<line>>
        /\ CompleteLines(SubSeq(before, 1, n))[Len(CompleteLines(SubSeq(before, 1, n)))] = line

AfterProcess == last.op = "Process"

\* ------------------------------------------------------------------------
\* C1
\* ------------------------------------------------------------------------

\* C1: a Process call on a buffer holding two or more complete non-blank
\* lines handles the first of them only: it invokes at most one callback,
\* takes that line (with the blank lines before it) from the front of the
\* buffer and leaves the other lines in the buffer as they were.
C1_OneLinePerCall ==
    (AfterProcess /\ Len(Pending(last.before)) >= 2) =>
        /\ last.result # "none"
        /\ Len(last.callbacks) <= 1
        /\ last.cmd_str = Pending(last.before)[1]
        /\ TookLine(last.before, last.cmd_str, buf_)
        /\ Pending(buf_) = Tail(Pending(last.before))

\* two non-blank lines behind a blank one; the call succeeded and called back
C1_Witness ==
    /\ AfterProcess
    /\ Len(Pending(last.before)) >= 2
    /\ AllSpaces(CompleteLines(last.before)[1])
    /\ last.result = "ok"
    /\ Len(last.callbacks) = 1
    /\ Pending(buf_) # <<>>

\* ------------------------------------------------------------------------
\* C2
\* ------------------------------------------------------------------------

\* C2: when Process reports an error, the buffer it leaves is the part of
\* the previous buffer behind the offending line's delimiter: the line is
\* gone and the lines behind it are still there to be processed.
C2_ErrorConsumesLine ==
    (AfterProcess /\ last.result = "error") =>
        /\ TookLine(last.before, last.cmd_str, buf_)
        /\ Len(Pending(last.before)) >= 1
        /\ last.cmd_str = Pending(last.before)[1]
        /\ Pending(buf_) = Tail(Pending(last.before))
        /\ Len(buf_) < Len(last.before)

\* an error with another complete line still queued behind the offending one
C2_Witness ==
    /\ AfterProcess
    /\ last.result = "error"
    /\ last.kind = "MalformedArgument"
    /\ Pending(buf_) # <<>>

\* ------------------------------------------------------------------------
\* C3
\* ------------------------------------------------------------------------

\* C3: when Process reports an error for a line, no setter has been invoked,
\* the user's variables are what they were and the callback was not invoked.
C3_AllOrNothing ==
    (AfterProcess /\ last.result = "error") =>
        /\ last.setters = <<>>
        /\ store = last.store_before
        /\ last.callbacks = <<>>

\* an error on a line whose first argument is declared and passed its checks
C3_Witness ==
    /\ AfterProcess
    /\ last.result = "error"
    /\ last.kind \in {"TypeMismatch", "ValidationFailed"}
    /\ <<"t">> \in DOMAIN command_map_
    /\ Len(Tokenize(last.cmd_str)) >= 3
    /\ CheckToken(command_map_[<<"t">>].arg_map, Tokenize(last.cmd_str)[2]).ok
    /\ CheckToken(command_map_[<<"t">>].arg_map, Tokenize(last.cmd_str)[2]).declared

\* ------------------------------------------------------------------------
\* C4
\* ------------------------------------------------------------------------

\* Process called on buf until it finds no delimiter: the outcomes it adds to
\* out and the buffer it leaves
RECURSIVE Drained(_, _, _)
DrainedFrom(command_map, x, out) ==
    IF ~x.has THEN [log |-> out, buf |-> x.buf]
    ELSE Drained(command_map, x.buf, Append(out, Outcome(command_map, x.cmd_str)))

Drained(command_map, buf, out) == DrainedFrom(command_map, ExtractLine(buf), out)

\* C4: with the registry fixed before the first byte arrives, however the
\* bytes were split over Feed calls and wherever Process was called between
\* them, finishing the run (Process until no delimiter is left) gives the
\* outcomes and the buffer of the run that feeds all the bytes in one Feed
\* and only then calls Process.
C4_ChunkIndependence ==
    quiet => Drained(command_map_, buf_, log) = Drained(command_map_, fed, <<>>)

\* a line was handled, and Process has since run on the first part of a
\* line whose rest has not been fed yet
C4_Witness ==
    /\ quiet
    /\ AfterProcess
    /\ last.result = "none"
    /\ buf_ # <<>>
    /\ wire # <<>>
    /\ Len(log) >= 1
    /\ log[1].result = "ok"

\* ------------------------------------------------------------------------
\* C5
\* ------------------------------------------------------------------------

\* C5: the buffer is what is left of the bytes fed so far once a prefix is
\* removed that is empty or ends right behind a delimiter; Feed puts its
\* bytes at the end and Process takes bytes from the front only.
C5_BufferIsSuffix ==
    /\ \E k \in 0..Len(fed) :
          /\ buf_ = Suffix(fed, k)
          /\ k = 0 \/ fed[k] = delim
    /\ last.op = "Feed" => buf_ = last.before \o last.bytes
    /\ AfterProcess =>
          \E k \in 0..Len(last.before) :
              /\ buf_ = Suffix(last.before, k)
              /\ k = 0 \/ last.before[k] = delim

\* bytes have been consumed, bytes are left, and a Feed has just added more
C5_Witness ==
    /\ last.op = "Feed"
    /\ last.before # <<>>
    /\ Len(buf_) < Len(fed)
    /\ Len(log) >= 1

\* ------------------------------------------------------------------------
\* C6
\* ------------------------------------------------------------------------

\* a non-empty buffer of blank lines, each with its delimiter
OnlyBlankLines(s) == s # <<>> /\ s[Len(s)] = delim /\ Pending(s) = <<>>

\* C6: on a buffer that holds nothing but empty or all-space lines, each
\* terminated by the delimiter, Process returns "no command processed",
\* raises nothing, invokes no setter and no callback, and leaves the buffer
\* empty.
C6_BlankLinesNoOp ==
    (AfterProcess /\ OnlyBlankLines(last.before)) =>
        /\ last.result = "none"
        /\ last.exc = "none"
        /\ last.setters = <<>>
        /\ last.callbacks = <<>>
        /\ store = last.store_before
        /\ buf_ = <<>>

\* two blank lines, one of them of spaces, purged by one call
C6_Witness ==
    /\ AfterProcess
    /\ OnlyBlankLines(last.before)
    /\ Len(CompleteLines(last.before)) >= 2
    /\ \E i \in 1..Len(last.before) : last.before[i] = SP
    /\ buf_ = <<>>

\* ------------------------------------------------------------------------
\* C7
\* ------------------------------------------------------------------------

\* C7: RegisterCommand on a qualifier that is already registered fails and
\* leaves the registry as it was; every qualifier keeps the argument specs
\* and the callback of its first registration, and a line naming it is
\* checked against those specs and calls that callback.
C7_DuplicateRegistration ==
    /\ (last.op = "RegisterCommand" /\ last.q \in DOMAIN last.before) =>
          /\ last.result = "InvalidArgumentError"
          /\ command_map_ = last.before
    /\ (last.op = "RegisterCommand" /\ last.q \notin DOMAIN last.before) =>
          /\ last.result = "true"
          /\ last.q \in DOMAIN command_map_
    /\ DOMAIN command_map_ = DOMAIN first
    /\ \A q \in DOMAIN first : command_map_[q] = first[q]
    /\ (AfterProcess /\ last.result = "ok") =>
          /\ Tokenize(last.cmd_str)[1] \in DOMAIN first
          /\ DOMAIN last.matched \subseteq DOMAIN first[Tokenize(last.cmd_str)[1]].arg_map
          /\ \A i \in DOMAIN last.callbacks :
                last.callbacks[i].callback = first[Tokenize(last.cmd_str)[1]].callback

\* after a second registration of "t" was refused, a line naming "t" was
\* dispatched to the callback of the first
C7_Witness ==
    /\ <<"t">> \in dups
    /\ AfterProcess
    /\ last.result = "ok"
    /\ Len(last.callbacks) = 1
    /\ last.callbacks[1].callback = "cbA"
    /\ DOMAIN last.matched # {}

\* ------------------------------------------------------------------------
\* Vocabulary of the properties about one line, defined on its text
\* ------------------------------------------------------------------------

\* the words of a line: its maximal runs of bytes other than spaces
RECURSIVE Words(_)
Words(l) ==
    IF l = <<>> THEN <<>>
    ELSE IF Head(l) = SP THEN Words(Tail(l))
    ELSE IF \A i \in 1..Len(l) : l[i] # SP THEN <<l>>
    ELSE LET n == CHOOSE i \in 1..Len(l) : l[i] = SP /\ \A j \in 1..(i - 1) : l[j] # SP
         IN  <<SubSeq(l, 1, n - 1)>> \o Words(SubSeq(l, n, Len(l)))

HasEq(tok) == \E i \in 1..Len(tok) : tok[i] = "="

EqAt(tok) == CHOOSE i \in 1..Len(tok) : tok[i] = "=" /\ \A j \in 1..(i - 1) : tok[j] # "="

NameOf(tok) == IF HasEq(tok) THEN SubSeq(tok, 1, EqAt(tok) - 1) ELSE tok

ValueOf(tok) == IF HasEq(tok) THEN SubSeq(tok, EqAt(tok) + 1, Len(tok)) ELSE <<>>

Unsigned(val) == IF val # <<>> /\ Head(val) \in {"+", "-"} THEN Tail(val) ELSE val

\* integer syntax: an optional sign and one or more digits
IntSyntax(val) ==
    /\ Unsigned(val) # <<>>
    /\ \A i \in 1..Len(Unsigned(val)) : IsDigit(Unsigned(val)[i])

\* non-integer numeric syntax: an optional sign, digits and one point
PointSyntax(val) ==
    /\ Cardinality({i \in 1..Len(Unsigned(val)) : Unsigned(val)[i] = "."}) = 1
    /\ \E i \in 1..Len(Unsigned(val)) : IsDigit(Unsigned(val)[i])
    /\ \A i \in 1..Len(Unsigned(val)) : IsDigit(Unsigned(val)[i]) \/ Unsigned(val)[i] = "."

\* a name=value token whose value is a number
WellFormed(tok) == HasEq(tok) /\ (IntSyntax(ValueOf(tok)) \/ PointSyntax(ValueOf(tok)))

\* a token that meets every check made of it against the argument specs am
TokenPasses(am, tok) ==
    /\ WellFormed(tok)
    /\ NameOf(tok) \in DOMAIN am =>
          /\ am[NameOf(tok)].is_float \/ IntSyntax(ValueOf(tok))
          /\ Validate(am[NameOf(tok)].validator, Strtof(ValueOf(tok)).val)

\* the argument tokens of a line
ArgsOf(cmd_str) == Tail(Words(cmd_str))

AllPass(am, args) == \A i \in 1..Len(args) : TokenPasses(am, args[i])

\* the names the tokens of a line give
Supplied(args) == {NameOf(args[i]) : i \in 1..Len(args)}

\* the required arguments of am that no token names
Omitted(am, args) == {n \in DOMAIN am : ~am[n].optional /\ n \notin Supplied(args)}

\* Process has just handled a line whose qualifier is registered
Dispatched ==
    /\ AfterProcess
    /\ last.result # "none"
    /\ Words(last.cmd_str)[1] \in DOMAIN command_map_

\* the argument specs the line just handled was checked against
LastArgMap == command_map_[Words(last.cmd_str)[1]].arg_map

\* ------------------------------------------------------------------------
\* C8
\* ------------------------------------------------------------------------

\* the callback, when there is one, was called once with the matched map
CallbackSaw(matched) ==
    \/ /\ command_map_[Words(last.cmd_str)[1]].callback = "null"
       /\ last.callbacks = <<>>
    \/ /\ Len(last.callbacks) = 1
       /\ last.callbacks[1].matched = matched

C8_WithAllValid(am, args) ==
    /\ (Omitted(am, args) = {} /\ AllPass(am, args)) =>
          /\ last.result = "ok"
          /\ DOMAIN last.matched = Supplied(args) \cap DOMAIN am
          /\ CallbackSaw(last.matched)
    /\ last.kind = "MissingRequiredArgument" => Omitted(am, args) # {}

C8_OriginalFor(am, args) ==
    /\ Omitted(am, args) # {} => last.kind = "MissingRequiredArgument"
    /\ C8_WithAllValid(am, args)

C8_AmendedFor(am, args) ==
    /\ Omitted(am, args) # {} =>
          /\ last.result = "error"
          /\ last.callbacks = <<>>
    /\ (Omitted(am, args) # {} /\ AllPass(am, args)) =>
          last.kind = "MissingRequiredArgument"
    /\ C8_WithAllValid(am, args)

C8_WitnessMissing ==
    /\ Dispatched
    /\ last.kind = "MissingRequiredArgument"
    /\ ArgsOf(last.cmd_str) # <<>>
    /\ AllPass(LastArgMap, ArgsOf(last.cmd_str))

\* ------------------------------------------------------------------------
\* C9
\* ------------------------------------------------------------------------

\* name=value tokens whose names no registered command declares, with the
\* numbers their values denote
ExtraTokens ==
    { [tok |-> <<"y", "=", "3">>, name |-> <<"y">>, val |-> 3 * Scale],
      [tok |-> <<"x", "=", "4", ".", "5">>, name |-> <<"x">>, val |-> (9 * Scale) \div 2] }

\* the number each well-formed value of the peer's tokens denotes
Denotes(val) ==
    CASE val = <<"5">> -> 5 * Scale
      [] val = <<"2">> -> 2 * Scale
      [] val = <<"5", "1">> -> 51 * Scale
      [] val = <<"-", "7">> -> -7 * Scale
      [] val = <<"7", ".", "0">> -> 7 * Scale
      [] val = <<"2", ".", "5">> -> (5 * Scale) \div 2
      [] val = <<"1", ".", "5">> -> (3 * Scale) \div 2
      [] val = <<".", "5">> -> Scale \div 2
      [] val = <<"1">> -> Scale
      [] val = <<"3">> -> 3 * Scale
      [] val = <<"3", "0", "0">> -> 300 * Scale
      [] val = <<"1", ".", "0">> -> Scale
      [] OTHER -> 0

\* words with tok put in behind the p-th of them
InsertedAt(words, p, tok) == SubSeq(words, 1, p) \o <<tok>> \o SubSeq(words, p + 1, Len(words))

LineOf(words) == Joined(Head(words), Tail(words))

\* no word behind the p-th gives the name
LastOfName(words, p, name) == \A i \in (p + 1)..Len(words) : NameOf(words[i]) # name

\* o, the outcome of the line with the extra token e put in behind word p,
\* against the outcome of the line as it was
C9_SameOutcome(o, e, words, p) ==
    /\ o.result = last.result
    /\ o.exc = last.exc
    /\ o.kind = last.kind
    /\ o.matched = last.matched
    /\ o.result = "ok" =>
          /\ DOMAIN o.unmatched = DOMAIN last.unmatched \cup {e.name}
          /\ \A n \in DOMAIN last.unmatched : n # e.name => o.unmatched[n] = last.unmatched[n]
          /\ LastOfName(words, p, e.name) => o.unmatched[e.name] = e.val
          /\ ~LastOfName(words, p, e.name) => o.unmatched[e.name] = last.unmatched[e.name]

\* the undeclared tokens of the line just handled are in the unmatched map,
\* each name with the number of the last token that gives it
C9_Recorded(am, args) ==
    /\ DOMAIN last.unmatched = Supplied(args) \ DOMAIN am
    /\ \A i \in 1..Len(args) :
          (NameOf(args[i]) \notin DOMAIN am /\ LastOfName(args, i, NameOf(args[i]))) =>
              last.unmatched[NameOf(args[i])] = Denotes(ValueOf(args[i]))
    /\ \A i \in DOMAIN last.callbacks : last.callbacks[i].unmatched = last.unmatched

\* C9: adding a well-formed name=value token with an undeclared name to a
\* line, at any place behind the qualifier, changes neither whether Process
\* succeeds nor the error it reports nor the matched map; on success the
\* name is in the unmatched map the callback receives, with the number its
\* value denotes (that of the last token giving the name).
C9_UndeclaredArgument ==
    /\ (AfterProcess /\ last.result # "none") =>
          \A e \in ExtraTokens : \A p \in 1..Len(Words(last.cmd_str)) :
              C9_SameOutcome(
                  Outcome(command_map_, LineOf(InsertedAt(Words(last.cmd_str), p, e.tok))),
                  e, Words(last.cmd_str), p)
    /\ (Dispatched /\ last.result = "ok") =>
          C9_Recorded(LastArgMap, ArgsOf(last.cmd_str))

\* a successful line with a declared and an undeclared argument
C9_Witness ==
    /\ Dispatched
    /\ last.result = "ok"
    /\ DOMAIN last.matched # {}
    /\ <<"x">> \in DOMAIN last.unmatched
    /\ last.unmatched[<<"x">>] = -7 * Scale
    /\ Len(last.callbacks) = 1
    /\ last.callbacks[1].unmatched = last.unmatched

\* ------------------------------------------------------------------------
\* C10
\* ------------------------------------------------------------------------

\* a token the type check cannot refuse and no validator looks at
Clean(am, tok) ==
    /\ WellFormed(tok)
    /\ NameOf(tok) \in DOMAIN am =>
          /\ am[NameOf(tok)].is_float \/ IntSyntax(ValueOf(tok))
          /\ am[NameOf(tok)].validator = "null"

\* a number in non-integer syntax given for an integer-declared argument
PointForInt(am, tok) ==
    /\ HasEq(tok)
    /\ PointSyntax(ValueOf(tok))
    /\ NameOf(tok) \in DOMAIN am
    /\ ~am[NameOf(tok)].is_float

C10_For(am, args) ==
    /\ (\A i \in 1..Len(args) : Clean(am, args[i])) =>
          /\ last.kind \in {"none", "MissingRequiredArgument"}
          /\ last.result = "ok" =>
                \A i \in 1..Len(args) :
                    (NameOf(args[i]) \in DOMAIN am /\ LastOfName(args, i, NameOf(args[i]))) =>
                        /\ NameOf(args[i]) \in DOMAIN last.matched
                        /\ last.matched[NameOf(args[i])] = Denotes(ValueOf(args[i]))
    /\ \A i \in 1..Len(args) :
          (PointForInt(am, args[i]) /\ \A j \in 1..(i - 1) : Clean(am, args[j])) =>
              /\ last.result = "error"
              /\ last.kind = "TypeMismatch"
              /\ last.exc = "InvalidArgumentError"

\* C10: a value in integer syntax is accepted for an integer-declared and
\* for a float-declared argument, a value in non-integer syntax is accepted
\* for a float-declared argument, and a value in non-integer syntax given
\* for an integer-declared argument is rejected with TypeMismatch, also when
\* the number is whole.
C10_TypeCheck == Dispatched => C10_For(LastArgMap, ArgsOf(last.cmd_str))

\* 7.0 for the integer-declared argument, behind an accepted float argument
C10_Witness ==
    /\ Dispatched
    /\ last.kind = "TypeMismatch"
    /\ Len(ArgsOf(last.cmd_str)) = 2
    /\ ArgsOf(last.cmd_str)[2] = <<"a", "=", "7", ".", "0">>
    /\ Clean(LastArgMap, ArgsOf(last.cmd_str)[1])
    /\ NameOf(ArgsOf(last.cmd_str)[1]) \in DOMAIN LastArgMap

\* ------------------------------------------------------------------------
\* C11
\* ------------------------------------------------------------------------

\* a token with no '=', with nothing behind its '=', with more than one '=',
\* or with a value that is not a number from its first byte to its last
Malformed(tok) ==
    \/ ~HasEq(tok)
    \/ ValueOf(tok) = <<>>
    \/ Cardinality({i \in 1..Len(tok) : tok[i] = "="}) > 1
    \/ ~(IntSyntax(ValueOf(tok)) \/ PointSyntax(ValueOf(tok)))

\* C11: for a registered qualifier, a token behind it that has no '=', an
\* empty value, more than one '=' or a value that is not fully numeric makes
\* Process fail with MalformedArgument, whether or not its name is declared
\* (the tokens before it having passed their checks).
C11_MalformedRejected ==
    Dispatched =>
        \A i \in 1..Len(ArgsOf(last.cmd_str)) :
            (/\ Malformed(ArgsOf(last.cmd_str)[i])
             /\ \A j \in 1..(i - 1) : TokenPasses(LastArgMap, ArgsOf(last.cmd_str)[j])) =>
                /\ last.result = "error"
                /\ last.kind = "MalformedArgument"
                /\ last.exc = "InvalidArgumentError"

\* ------------------------------------------------------------------------
\* C12
\* ------------------------------------------------------------------------

\* C12: Process reports UnknownQualifier exactly when the first word of the
\* line it extracted is not a qualifier registered when Process runs: a word
\* that only starts with a registered qualifier is unknown, and a line fed
\* before its qualifier was registered and processed after is dispatched.
C12_UnknownQualifier ==
    (AfterProcess /\ last.result # "none") =>
        /\ last.kind = "UnknownQualifier" <=> Words(last.cmd_str)[1] \notin DOMAIN command_map_
        /\ last.kind = "UnknownQualifier" =>
              /\ last.result = "error"
              /\ last.exc = "UnknownQualifierError"
        /\ Words(last.cmd_str)[1] \in DOMAIN command_map_ =>
              last.exc # "UnknownQualifierError"

\* a line fed while nothing was registered, dispatched after the registration
C12_Witness ==
    /\ AfterProcess
    /\ ~quiet
    /\ last.result = "ok"
    /\ Words(last.cmd_str)[1] = <<"t">>
    /\ DOMAIN last.matched # {}

\* the qualifier "tt" is unknown while "t" is registered
C12_WitnessPrefix ==
    /\ AfterProcess
    /\ last.kind = "UnknownQualifier"
    /\ Words(last.cmd_str)[1] = <<"t", "t">>
    /\ <<"t">> \in DOMAIN command_map_

\* ------------------------------------------------------------------------
\* C13
\* ------------------------------------------------------------------------

\* what a Process call just made did to the buffer
C13_EachCall ==
    /\ (AfterProcess /\ HasDelim(last.before)) =>
          /\ Len(buf_) < Len(last.before)
          /\ \E k \in 1..Len(last.before) : buf_ = Suffix(last.before, k)
    /\ (AfterProcess /\ ~HasDelim(last.before)) =>
          /\ last.result = "none"
          /\ buf_ = last.before
          /\ last.setters = <<>>
          /\ last.callbacks = <<>>

\* C13: a Process call made while the buffer holds a delimiter returns and
\* leaves a strictly shorter buffer, whatever the line is; a call made while
\* it holds none returns "no command processed" and leaves the buffer as it
\* is; and while the caller keeps calling Process, a buffer that holds a
\* delimiter leads to one that holds none.
C13_ForwardProgress ==
    /\ []C13_EachCall
    /\ HasDelim(buf_) ~> ~HasDelim(buf_)

\* two rejected lines were drained and the next call found no delimiter
C13_Witness ==
    /\ AfterProcess
    /\ last.result = "none"
    /\ buf_ = last.before
    /\ ~HasDelim(buf_)
    /\ sent = MaxLines
    /\ wire = <<>>
    /\ Len(log) >= 2
    /\ \A i \in 1..Len(log) : log[i].result = "error"

\* ------------------------------------------------------------------------
\* C14
\* ------------------------------------------------------------------------

\* an unregistration has just run, called directly or by a destructor
AfterUnregister == last.op \in {"UnregisterExchangeState", "~ExchangeState"}

\* C14: unregistering a state never fails; it leaves the registry without
\* the name and every other entry as it was, so on an absent name (never
\* registered, or unregistered before) it changes nothing, and unregistering
\* a name twice gives the registry that unregistering it once gives.
C14_UnregisterIdempotent ==
    /\ AfterUnregister =>
          /\ last.result = "void"
          /\ DOMAIN exchange_state_map_ = (DOMAIN last.before) \ {last.name}
          /\ \A n \in DOMAIN exchange_state_map_ : exchange_state_map_[n] = last.before[n]
          /\ last.name \notin DOMAIN last.before => exchange_state_map_ = last.before
    /\ \A d \in StateDecls :
          Unregistered(Unregistered(exchange_state_map_, d.name), d.name)
              = Unregistered(exchange_state_map_, d.name)

\* a destructor unregistered a name that a direct call had already removed,
\* while another state was registered
C14_Witness ==
    /\ last.op = "~ExchangeState"
    /\ last.name \notin DOMAIN last.before
    /\ exchange_state_map_ = last.before
    /\ DOMAIN exchange_state_map_ # {}

\* ------------------------------------------------------------------------
\* C15
\* ------------------------------------------------------------------------

\* C15: registering a state under a name that is already registered fails
\* and leaves the registry unchanged; the entry of the first owner stays
\* registered under the name for as long as that owner is alive, also after
\* the refused duplicate has gone away, and is removed only when the first
\* owner is destroyed.
C15_DuplicateState ==
    /\ (last.op = "ExchangeState" /\ last.name \in DOMAIN last.before) =>
          /\ last.result \in {"InvalidArgumentError", "false"}
          /\ exchange_state_map_ = last.before
    /\ \A id \in DOMAIN objs :
          objs[id].registered =>
              /\ objs[id].name_ \in DOMAIN exchange_state_map_
              /\ exchange_state_map_[objs[id].name_].owner = id
    /\ \A n \in DOMAIN exchange_state_map_ :
          /\ exchange_state_map_[n].owner \in DOMAIN objs
          /\ objs[exchange_state_map_[n].owner].name_ = n

\* ------------------------------------------------------------------------
\* C16
\* ------------------------------------------------------------------------

\* the value of the last token of args that gives the name n
LastValue(args, n) ==
    ValueOf(args[CHOOSE i \in 1..Len(args) : NameOf(args[i]) = n /\ LastOfName(args, i, n)])

\* the state objects and the sink are as the line found them
StatesUntouched == objs = last.objs_before /\ ostream_ = last.ostream_before

\* the 'R' report line of the state object id holding the whole number v
ReportLine(id, v) == [label |-> "R", channel |-> objs[id].name_, message |-> v]

\* the state object id holds the whole number v, no other state was touched
\* and the lines out were written
Updated(id, v, out) ==
    /\ DOMAIN objs = DOMAIN last.objs_before
    /\ objs[id] = [last.objs_before[id] EXCEPT !.state_ = v]
    /\ \A j \in (DOMAIN objs) \ {id} : objs[j] = last.objs_before[j]
    /\ ostream_ = last.ostream_before \o out

\* what a successful line supplying the whole number v has done, as stated
C16_Reported(id, v) == Updated(id, v, <<ReportLine(id, v)>>)

\* the same, with the report written only by a state whose report_state is set
C16_ReportedIfEnabled(id, v) ==
    Updated(id, v, IF last.objs_before[id].report_state
                   THEN <<ReportLine(id, v)>> ELSE <<>>)

\* the line just handled against its argument n, bound to the state object
\* id; reported tells whether v was set and reported as it should
C16_For(args, n, id, T, reported) ==
    /\ (last.result = "ok" /\ n \in Supplied(args)) => reported
    /\ (last.result = "ok" /\ n \notin Supplied(args)) => StatesUntouched
    /\ last.result = "error" => StatesUntouched
    /\ (args # <<>> /\ NameOf(args[1]) = n /\ PointSyntax(ValueOf(args[1]))) =>
          /\ last.kind = "TypeMismatch"
          /\ StatesUntouched
    /\ (args # <<>> /\ NameOf(args[1]) = n /\ IntSyntax(ValueOf(args[1]))
            /\ T = "bool" /\ Denotes(ValueOf(args[1])) \notin {0, Scale}) =>
          /\ last.kind = "ValidationFailed"
          /\ StatesUntouched
    /\ (Len(args) = 1 /\ NameOf(args[1]) = n /\ IntSyntax(ValueOf(args[1]))
            /\ T = "bool" /\ Denotes(ValueOf(args[1])) \in {0, Scale}) =>
          last.result = "ok"

\* the whole number the line just handled supplies for n
SuppliedWhole(n) == Denotes(LastValue(ArgsOf(last.cmd_str), n)) \div Scale

C16_WitnessSilent ==
    /\ Dispatched
    /\ last.result = "ok"
    /\ <<"a">> \in DOMAIN last.matched
    /\ LastArgMap[<<"a">>].setter.kind = "state"
    /\ ~last.objs_before[LastArgMap[<<"a">>].setter.target].report_state
    /\ last.objs_before[LastArgMap[<<"a">>].setter.target].state_ = 0
    /\ objs[LastArgMap[<<"a">>].setter.target].state_ = 1
    /\ ostream_ = <<>>

\* a bool state kept its value and nothing was written when 2 was refused
C16_WitnessRejected ==
    /\ Dispatched
    /\ last.kind = "ValidationFailed"
    /\ LastArgMap[<<"a">>].setter.kind = "state"
    /\ last.objs_before[LastArgMap[<<"a">>].setter.target].T = "bool"
    /\ objs = last.objs_before
    /\ ostream_ = <<>>

\* ------------------------------------------------------------------------
\* C17
\* ------------------------------------------------------------------------

\* the token names a declared argument that has a validator
HasValidator(am, tok) ==
    /\ NameOf(tok) \in DOMAIN am
    /\ am[NameOf(tok)].validator # "null"

\* the validator of the token's argument refuses the number the token denotes
ValidatorRefuses(am, tok) ==
    /\ HasValidator(am, tok)
    /\ ~Validate(am[NameOf(tok)].validator, Denotes(ValueOf(tok)))

\* the validator calls due to the tokens before position i, all of which pass
AskedBefore(am, args, i) ==
    [k \in 1..Cardinality({j \in 1..(i - 1) : HasValidator(am, args[j])}) |->
        [name |-> NameOf(args[CHOOSE j \in 1..(i - 1) :
                      /\ HasValidator(am, args[j])
                      /\ Cardinality({h \in 1..j : HasValidator(am, args[h])}) = k]),
         val  |-> Denotes(ValueOf(args[CHOOSE j \in 1..(i - 1) :
                      /\ HasValidator(am, args[j])
                      /\ Cardinality({h \in 1..j : HasValidator(am, args[h])}) = k]))]]

\* the line just handled, token by token
C17_For(am, args) ==
    /\ last.kind = "ValidationFailed" <=> last.exc = "ValidatorError"
    /\ last.kind = "TypeMismatch" => last.exc = "InvalidArgumentError"
    /\ \A i \in 1..Len(args) :
          (\A j \in 1..(i - 1) : TokenPasses(am, args[j])) =>
              /\ PointForInt(am, args[i]) =>
                    /\ last.result = "error"
                    /\ last.kind = "TypeMismatch"
                    /\ last.asked = AskedBefore(am, args, i)
              /\ (WellFormed(args[i]) /\ ~PointForInt(am, args[i])
                      /\ ValidatorRefuses(am, args[i])) =>
                    /\ last.result = "error"
                    /\ last.kind = "ValidationFailed"
                    /\ last.asked = AskedBefore(am, args, i + 1)
    /\ \A k \in 1..Len(last.asked) :
          \E i \in 1..Len(args) :
              /\ NameOf(args[i]) = last.asked[k].name
              /\ HasValidator(am, args[i])
              /\ WellFormed(args[i])
              /\ Denotes(ValueOf(args[i])) = last.asked[k].val
              /\ am[NameOf(args[i])].is_float \/ IntSyntax(ValueOf(args[i]))

\* C17: a validator's refusal is reported as ValidationFailed (a
\* ValidatorError), which TypeMismatch (an InvalidArgumentError) never is;
\* a value in non-integer syntax for an integer-declared argument gives
\* TypeMismatch and its validator is not called, also when the validator
\* would refuse the number; every validator call is made on a value that has
\* passed the type check.
C17_TypeBeforeValidator == Dispatched => C17_For(LastArgMap, ArgsOf(last.cmd_str))

\* 2.5 for a bool state: TypeMismatch, and the validator that would have
\* refused 2.5 was not called
C17_Witness ==
    /\ Dispatched
    /\ ArgsOf(last.cmd_str) = << <<"a", "=", "2", ".", "5">> >>
    /\ LastArgMap[<<"a">>].validator = "default_bool"
    /\ ValidatorRefuses(LastArgMap, <<"a", "=", "2", ".", "5">>)
    /\ last.kind = "TypeMismatch"
    /\ last.asked = <<>>

\* 2 for a bool state: the validator was called with 2 and refused it
C17_WitnessRefused ==
    /\ Dispatched
    /\ ArgsOf(last.cmd_str) = << <<"a", "=", "2">> >>
    /\ LastArgMap[<<"a">>].validator = "default_bool"
    /\ last.kind = "ValidationFailed"
    /\ last.asked = << [name |-> <<"a">>, val |-> 2 * Scale] >>

\* ------------------------------------------------------------------------
\* C18
\* ------------------------------------------------------------------------

\* C18: the lines handed to ValidateApply so far, followed by the complete
\* non-blank lines still in the buffer, are the complete non-blank lines of
\* the bytes fed, in the order fed: no line is skipped, handled twice or out
\* of turn, and each handled line has one recorded outcome. A buffer holding
\* k complete non-blank lines takes k Process calls that each handle a line
\* before a call returns false: a call returns false exactly when the buffer
\* it finds holds no complete non-blank line, else it handles the first one.
C18_Fifo ==
    /\ Pending(fed) = handled \o Pending(buf_)
    /\ Len(log) = Len(handled)
    /\ Len(Drained(command_map_, buf_, <<>>).log) = Len(Pending(buf_))
    /\ Pending(Drained(command_map_, buf_, <<>>).buf) = <<>>
    /\ AfterProcess =>
          /\ last.result = "none" <=> Pending(last.before) = <<>>
          /\ last.result # "none" =>
                /\ handled # <<>>
                /\ handled[Len(handled)] = last.cmd_str
                /\ last.cmd_str = Pending(last.before)[1]

\* two different lines have been handled in the order fed by two calls; the
\* third call found nothing
C18_Witness ==
    /\ Len(handled) = 2
    /\ handled[1] # handled[2]
    /\ handled = Pending(fed)
    /\ AfterProcess
    /\ last.result = "none"

\* of two different lines waiting in the buffer together, the call handled
\* the one fed first and left the other
C18_WitnessQueued ==
    /\ AfterProcess
    /\ Len(Pending(last.before)) = 2
    /\ Pending(last.before)[1] # Pending(last.before)[2]
    /\ handled = <<Pending(last.before)[1]>>
    /\ Pending(buf_) = <<Pending(last.before)[2]>>

\* ------------------------------------------------------------------------
\* C19
\* ------------------------------------------------------------------------

\* the error a token has of its own, going by its text: "none" if it passes
TokenError(am, tok) ==
    IF Malformed(tok) THEN "MalformedArgument"
    ELSE IF PointForInt(am, tok) THEN "TypeMismatch"
    ELSE IF ValidatorRefuses(am, tok) THEN "ValidationFailed"
    ELSE "none"

\* the positions of the tokens that have an error of their own
Failing(am, args) == {i \in 1..Len(args) : TokenError(am, args[i]) # "none"}

\* the first of a non-empty set of positions
FirstOf(S) == CHOOSE i \in S : \A j \in S : i <= j

\* the error the precedence rule gives a line of a registered qualifier
Precedence(am, args) ==
    IF Failing(am, args) # {} THEN TokenError(am, args[FirstOf(Failing(am, args))])
    ELSE IF Omitted(am, args) # {} THEN "MissingRequiredArgument"
    ELSE "none"

\* C19: the qualifier is looked up first: a line whose first word is not
\* registered gives UnknownQualifier whatever its tokens are. Else the
\* tokens are checked from left to right and the first token with an error
\* of its own (malformed, wrong type, refused by its validator) gives the
\* error reported; MissingRequiredArgument is reported only when every token
\* passes, so a line that omits a required argument and holds a malformed
\* token reports MalformedArgument.
C19_Precedence ==
    (AfterProcess /\ last.result # "none") =>
        IF Words(last.cmd_str)[1] \notin DOMAIN command_map_
        THEN last.kind = "UnknownQualifier"
        ELSE last.kind = Precedence(LastArgMap, ArgsOf(last.cmd_str))

\* the line just handled holds a NUL byte
HoldsNul == AfterProcess /\ \E i \in 1..Len(last.cmd_str) : last.cmd_str[i] = NUL

\* the precedence rule on the lines that hold no NUL byte
PrecedenceWithoutNul == HoldsNul \/ C19_Precedence

\* a line that omits the required r and holds a malformed token behind a
\* passing one was reported as MalformedArgument
PrecedenceSeen ==
    /\ Dispatched
    /\ ~HoldsNul
    /\ Omitted(LastArgMap, ArgsOf(last.cmd_str)) # {}
    /\ Failing(LastArgMap, ArgsOf(last.cmd_str)) # {}
    /\ FirstOf(Failing(LastArgMap, ArgsOf(last.cmd_str))) > 1
    /\ last.kind = "MalformedArgument"

\* ------------------------------------------------------------------------
\* C20
\* ------------------------------------------------------------------------

\* each name the tokens give is a key of exactly one of the two maps, and a
\* name whose last token gives a number is mapped to that number
C20_For(am, args, matched, unmatched) ==
    /\ DOMAIN matched \subseteq DOMAIN am
    /\ (DOMAIN unmatched) \cap (DOMAIN am) = {}
    /\ (DOMAIN matched) \cap (DOMAIN unmatched) = {}
    /\ (DOMAIN matched) \cup (DOMAIN unmatched) = Supplied(args)
    /\ \A i \in 1..Len(args) :
          (LastOfName(args, i, NameOf(args[i])) /\ WellFormed(args[i])) =>
              IF NameOf(args[i]) \in DOMAIN am
              THEN matched[NameOf(args[i])] = Denotes(ValueOf(args[i]))
              ELSE unmatched[NameOf(args[i])] = Denotes(ValueOf(args[i]))

\* C20: when a line succeeds, the matched and unmatched maps (the ones the
\* callback is called with, if there is a callback) partition the names
\* supplied on the line: the keys of matched are declared names, the keys of
\* unmatched are not, no name is in both, every supplied name is in one of
\* them, and a repeated name carries the value of its last token.
C20_Partition ==
    (Dispatched /\ last.result = "ok") =>
        /\ C20_For(LastArgMap, ArgsOf(last.cmd_str), last.matched, last.unmatched)
        /\ \A c \in 1..Len(last.callbacks) :
              /\ last.callbacks[c].matched = last.matched
              /\ last.callbacks[c].unmatched = last.unmatched

\* a callback was called with a declared and an undeclared name, each in its
\* own map
C20_Witness ==
    /\ Dispatched
    /\ last.result = "ok"
    /\ Len(last.callbacks) = 1
    /\ ArgsOf(last.cmd_str) = << <<"r", "=", "2">>, <<"x", "=", "-", "7">> >>
    /\ DOMAIN last.callbacks[1].matched = {<<"r">>}
    /\ DOMAIN last.callbacks[1].unmatched = {<<"x">>}

\* a declared name given twice carries its second value
C20_WitnessRepeated ==
    /\ Dispatched
    /\ last.result = "ok"
    /\ ArgsOf(last.cmd_str) = << <<"r", "=", "2">>, <<"r", "=", ".", "5">> >>
    /\ <<"r">> \in DOMAIN last.matched
    /\ last.matched[<<"r">>] = Scale \div 2

\* an undeclared name given twice carries its second value
C20_WitnessRepeatedUndeclared ==
    /\ Dispatched
    /\ last.result = "ok"
    /\ ArgsOf(last.cmd_str) = << <<"x", "=", "-", "7">>, <<"x", "=", "1", ".", "5">> >>
    /\ last.unmatched[<<"x">>] = (3 * Scale) \div 2

\* ------------------------------------------------------------------------
\* C21
\* ------------------------------------------------------------------------

\* the number a decimal digit stands for, -1 for any other character
DigitValue(c) ==
    CASE c = "0" -> 0 [] c = "1" -> 1 [] c = "2" -> 2 [] c = "3" -> 3 [] c = "4" -> 4
      [] c = "5" -> 5 [] c = "6" -> 6 [] c = "7" -> 7 [] c = "8" -> 8 [] c = "9" -> 9
      [] OTHER -> -1

\* text is the decimal numeral of n: digits only, no leading zero
RECURSIVE DecimalOf(_, _)
DecimalOf(text, n) ==
    /\ text # <<>>
    /\ DigitValue(text[Len(text)]) = n % 10
    /\ IF Len(text) = 1 THEN n < 10
       ELSE n >= 10 /\ DecimalOf(SubSeq(text, 1, Len(text) - 1), n \div 10)

\* Process has just called the built-in buffer-size callback
BufferSizeQueried ==
    /\ AfterProcess
    /\ last.result = "ok"
    /\ Words(last.cmd_str)[1] = QBufferSize
    /\ command_map_[QBufferSize].callback = "@flp.buffer.size"

\* the buffer s holds the line and its delimiter behind blank lines only
OnlyContent(s, line) ==
    /\ Len(s) > Len(line)
    /\ SubSeq(s, Len(s) - Len(line), Len(s)) = Append(line, delim)
    /\ Pending(s) = <<line>>

\* C21: the buffer-size query writes one '_' line on its own channel whose
\* message is the decimal length of the buffer as Process left it once the
\* query line, with the blank lines before it, was taken from the front: 0
\* when the buffer held nothing but the query line, else the number of bytes
\* queued behind that line.
C21_BufferSize ==
    BufferSizeQueried =>
        /\ Len(ostream_) = Len(last.ostream_before) + 1
        /\ SubSeq(ostream_, 1, Len(last.ostream_before)) = last.ostream_before
        /\ ostream_[Len(ostream_)].label = "_"
        /\ ostream_[Len(ostream_)].channel = QBufferSize
        /\ DecimalOf(ostream_[Len(ostream_)].message, Len(buf_))
        /\ TookLine(last.before, last.cmd_str, buf_)
        /\ OnlyContent(last.before, last.cmd_str) =>
              ostream_[Len(ostream_)].message = <<"0">>
        /\ ~OnlyContent(last.before, last.cmd_str) =>
              /\ ostream_[Len(ostream_)].message # <<"0">>
              /\ \E n \in 1..(Len(last.before) - 1) :
                    /\ last.before[n] = delim
                    /\ Pending(SubSeq(last.before, 1, n)) = <<last.cmd_str>>
                    /\ DecimalOf(ostream_[Len(ostream_)].message, Len(last.before) - n)

\* the query behind two blank lines was the only content: it reported 0
C21_Witness ==
    /\ BufferSizeQueried
    /\ last.before = <<" ", delim, delim>> \o QBufferSize \o <<delim>>
    /\ ostream_ = <<[label |-> "_", channel |-> QBufferSize, message |-> <<"0">>]>>

\* a whole line of 13 bytes was queued behind the query: it reported 13
C21_WitnessQueued ==
    /\ BufferSizeQueried
    /\ buf_ = QVersion \o <<delim>>
    /\ ostream_[Len(ostream_)].message = <<"1", "3">>

\* the 3 bytes of an unfinished line were queued behind the query
C21_WitnessPartial ==
    /\ BufferSizeQueried
    /\ buf_ = <<"t", " ", "r">>
    /\ ostream_[Len(ostream_)].message = <<"3">>

\* ------------------------------------------------------------------------
\* C22
\* ------------------------------------------------------------------------

\* the qualifiers of the built-in commands
Builtins == {InternalQualifiers[i] : i \in 1..Len(InternalQualifiers)}

\* a user's RegisterCommand call for a built-in qualifier has just returned
UserCallForBuiltin ==
    /\ last.op = "RegisterCommand"
    /\ last.q \in Builtins
    /\ last.callback = UserCallback

\* Process has just handled a line that names a built-in qualifier
BuiltinLineHandled ==
    /\ AfterProcess
    /\ last.result # "none"
    /\ Words(last.cmd_str)[1] \in Builtins

\* C22: a user's RegisterCommand call for one of the qualifiers
\* @flp.version, @flp.buffer.size, @flp.cmd_reg, @flp.state fails in every
\* reachable state, before RegisterInternalCommands as well as after it, and
\* a line that names one of them is never handed to a callback of the user.
C22_Reserved ==
    /\ UserCallForBuiltin => last.result # "true"
    /\ BuiltinLineHandled =>
          \A c \in 1..Len(last.callbacks) : last.callbacks[c].callback # UserCallback
    /\ \A q \in Builtins \cap DOMAIN command_map_ :
          command_map_[q].callback # UserCallback

\* the same for the qualifiers that a built-in command already holds
ReservedOnceInternal ==
    /\ (UserCallForBuiltin /\ last.q \in DOMAIN last.before
            /\ IsInternal(last.before[last.q].callback)) =>
          /\ last.result # "true"
          /\ command_map_ = last.before
    /\ \A q \in Builtins \cap DOMAIN command_map_ :
          IsInternal(first[q].callback) => IsInternal(command_map_[q].callback)

\* where exceptions are enabled, RegisterInternalCommands threw at a
\* qualifier the user holds and left a later built-in command unregistered
InternalsCutShort ==
    /\ last.op = "RegisterInternalCommands"
    /\ last.result = "InvalidArgumentError"
    /\ \E q \in Builtins : q \notin DOMAIN command_map_

\* ------------------------------------------------------------------------
\* C23
\* ------------------------------------------------------------------------

\* the declared names the tokens of a line give
SuppliedDeclared(am, args) == Supplied(args) \cap DOMAIN am

\* what the setter of the declared name n is to be called with: the number
\* the last token naming n denotes, whole for an int argument
SetterValue(am, args, n) ==
    IF am[n].is_float THEN Denotes(LastValue(args, n))
    ELSE Denotes(LastValue(args, n)) \div Scale

\* the last token that names n gives a number
LastIsNumber(args, n) ==
    \E i \in 1..Len(args) :
        NameOf(args[i]) = n /\ LastOfName(args, i, n) /\ WellFormed(args[i])

\* another declared name on the line is bound to the variable n is bound to
Shared(am, args, n) ==
    \E m \in SuppliedDeclared(am, args) \ {n} : am[m].setter.target = am[n].setter.target

\* one setter call for each declared name on the line, with its last value,
\* none for any other name, and one call of the callback, if there is one,
\* that finds the variables as the setters left them
C23_Calls(am, args) ==
    /\ \A n \in SuppliedDeclared(am, args) :
          /\ Cardinality({k \in 1..Len(last.setters) : last.setters[k].name = n}) = 1
          /\ LastIsNumber(args, n) =>
                \A k \in 1..Len(last.setters) :
                    last.setters[k].name = n =>
                        /\ last.setters[k].val = SetterValue(am, args, n)
                        /\ last.setters[k].target = am[n].setter.target
    /\ \A k \in 1..Len(last.setters) : last.setters[k].name \in SuppliedDeclared(am, args)
    /\ Len(last.callbacks) = IF command_map_[Words(last.cmd_str)[1]].callback = "null"
                             THEN 0 ELSE 1
    /\ last.store_seen = store
    /\ \A n \in SuppliedDeclared(am, args) :
          (LastIsNumber(args, n) /\ ~Shared(am, args, n)) =>
              last.store_seen[am[n].setter.target] = SetterValue(am, args, n)

\* C23 as stated: on a successful line the setter of each declared name
\* supplied is called once, with the last value supplied for the name, and
\* before the callback; the setter of a declared argument that is not
\* supplied is not called and the variable it is bound to is unchanged; the
\* callback is then called once and finds the variables fully applied.
C23_Original ==
    (Dispatched /\ last.result = "ok") =>
        /\ C23_Calls(LastArgMap, ArgsOf(last.cmd_str))
        /\ \A n \in (DOMAIN LastArgMap) \ Supplied(ArgsOf(last.cmd_str)) :
              store[LastArgMap[n].setter.target]
                  = last.store_before[LastArgMap[n].setter.target]

\* C23 amended: as stated, but the variable bound to a declared argument
\* that is not supplied is unchanged only if no supplied argument is bound
\* to the same variable.
C23_SettersThenCallback ==
    (Dispatched /\ last.result = "ok") =>
        /\ C23_Calls(LastArgMap, ArgsOf(last.cmd_str))
        /\ \A n \in (DOMAIN LastArgMap) \ Supplied(ArgsOf(last.cmd_str)) :
              (\A m \in SuppliedDeclared(LastArgMap, ArgsOf(last.cmd_str)) :
                    LastArgMap[m].setter.target # LastArgMap[n].setter.target) =>
                  store[LastArgMap[n].setter.target]
                      = last.store_before[LastArgMap[n].setter.target]

\* r given twice and a not at all: one setter call with the second value,
\* the variable of a as it was, and the callback found r applied
C23_Witness ==
    /\ Dispatched
    /\ last.result = "ok"
    /\ ArgsOf(last.cmd_str) = << <<"r", "=", "2">>, <<"r", "=", ".", "5">> >>
    /\ <<"a">> \in DOMAIN LastArgMap
    /\ Len(last.setters) = 1
    /\ last.setters[1].val = Scale \div 2
    /\ Len(last.callbacks) = 1
    /\ last.store_before["f"] = 0
    /\ last.store_seen["f"] = Scale \div 2
    /\ store["i"] = last.store_before["i"]

\* r supplied and v, bound to the same float, not: the variable of v changed
C23_WitnessShared ==
    /\ Dispatched
    /\ last.result = "ok"
    /\ ArgsOf(last.cmd_str) = << <<"r", "=", "2">> >>
    /\ {<<"r">>, <<"v">>} \subseteq DOMAIN LastArgMap
    /\ LastArgMap[<<"v">>].setter.target = LastArgMap[<<"r">>].setter.target
    /\ last.setters = << [name |-> <<"r">>, kind |-> "float", target |-> "f",
                          val |-> 2 * Scale] >>
    /\ store["f"] # last.store_before["f"]

\* C23 as stated, for the commands whose arguments are bound to different
\* variables
OriginalWithoutSharing ==
    (Dispatched /\ \A n, m \in DOMAIN LastArgMap :
        n # m => LastArgMap[n].setter.target # LastArgMap[m].setter.target)
    => C23_Original

=============================================================================
